---- MODULE Spec2Model ----
(***************************************************************************)
(* A model of the LinkedIn ad-library scraper: discovery (level 1), the    *)
(* detail pipeline (level 2, processAds / retryFailedAds) and the image    *)
(* downloader (level 3).                                                   *)
(*                                                                         *)
(* JavaScript strings are sequences of one-character strings; the value    *)
(* null is the distinguished token Null, which is not such a sequence.     *)
(***************************************************************************)
EXTENDS Integers, Sequences, FiniteSets, TLC

----------------------------------------------------------------------------
(* Bounds of the model *)

MaxAnchors == 3

MaxAds == 2

----------------------------------------------------------------------------
(* JavaScript values *)

Null == <<"null">>

NoMatch == <<"nomatch">>

Truthy(v) == v # Null /\ v # <<>>

Min(a, b) == IF a < b THEN a ELSE b

UpperChars == <<"A","B","C","D","E","F","G","H","I","J","K","L","M",
                "N","O","P","Q","R","S","T","U","V","W","X","Y","Z">>

LowerChars == <<"a","b","c","d","e","f","g","h","i","j","k","l","m",
                "n","o","p","q","r","s","t","u","v","w","x","y","z">>

toLowerCaseChar(c) ==
    IF \E k \in 1..26 : UpperChars[k] = c
    THEN LowerChars[CHOOSE k \in 1..26 : UpperChars[k] = c]
    ELSE c

toLowerCase(s) == [k \in 1..Len(s) |-> toLowerCaseChar(s[k])]

includes(s, sub) ==
    \E k \in 0..(Len(s) - Len(sub)) : SubSeq(s, k + 1, k + Len(sub)) = sub

startsWithAt(s, k, pat) ==
    /\ k + Len(pat) - 1 <= Len(s)
    /\ SubSeq(s, k, k + Len(pat) - 1) = pat

IsSpace(c) == c \in {" ", "\n", "\t"}

RECURSIVE trimStart(_)
trimStart(s) ==
    IF s # <<>> /\ IsSpace(Head(s)) THEN trimStart(Tail(s)) ELSE s

RECURSIVE trimEnd(_)
trimEnd(s) ==
    IF s # <<>> /\ IsSpace(s[Len(s)])
    THEN trimEnd(SubSeq(s, 1, Len(s) - 1))
    ELSE s

trim(s) == trimEnd(trimStart(s))

(* s.replace(/pat/g, rep) for a literal pattern: leftmost, non-overlapping *)
RECURSIVE replaceAll(_, _, _)
replaceAll(s, pat, rep) ==
    IF s = <<>> THEN <<>>
    ELSE IF startsWithAt(s, 1, pat)
         THEN rep \o replaceAll(SubSeq(s, Len(pat) + 1, Len(s)), pat, rep)
         ELSE <<Head(s)>> \o replaceAll(Tail(s), pat, rep)

(* s.replace(/<[^>]*>/g, ''): a "<" with a later ">" is removed up to it *)
RECURSIVE stripTags(_)
stripTags(s) ==
    IF s = <<>> THEN <<>>
    ELSE IF Head(s) = "<" /\ \E k \in 2..Len(s) : s[k] = ">"
         THEN LET close == CHOOSE k \in 2..Len(s) :
                              /\ s[k] = ">"
                              /\ \A j \in 2..(k - 1) : s[j] # ">"
              IN  stripTags(SubSeq(s, close + 1, Len(s)))
         ELSE <<Head(s)>> \o stripTags(Tail(s))

Quot == <<"&","q","u","o","t",";">>

Amp == <<"&","a","m","p",";">>

decodeQuotAmp(s) == replaceAll(replaceAll(s, Quot, <<"\"">>), Amp, <<"&">>)

----------------------------------------------------------------------------
(* Level 1: discovery *)

Digits == {"0","1","2","3","4","5","6","7","8","9"}

(* href.match(/detail\/(\d+)/)?.[1] applied to the path segment that       *)
(* follows "detail/": the longest run of digits at its start, or no match. *)
RECURSIVE leadingDigits(_)
leadingDigits(seg) ==
    IF seg # <<>> /\ Head(seg) \in Digits
    THEN <<Head(seg)>> \o leadingDigits(Tail(seg))
    ELSE <<>>

matchDetailId(href) ==
    IF leadingDigits(href.seg) = <<>> THEN NoMatch ELSE leadingDigits(href.seg)

(* link => ({url, id, isVideo}) followed by .filter(ad => ad.id) *)
mapLink(link) ==
    [url     |-> link.href,
     id      |-> IF matchDetailId(link.href) = NoMatch
                 THEN <<>> ELSE matchDetailId(link.href),
     isVideo |-> link.video]

extractAdLinks(links) ==
    SelectSeq([k \in 1..Len(links) |-> mapLink(links[k])],
              LAMBDA ad : Truthy(ad.id))

(* level1-only.js: link => ({url, id, text}), .filter(ad => ad.id); the    *)
(* link text plays no part and is left out                                 *)
mapLinkLevel1Only(link) ==
    [url |-> link.href,
     id  |-> IF matchDetailId(link.href) = NoMatch
             THEN <<>> ELSE matchDetailId(link.href)]

extractAllAds(links) ==
    SelectSeq([k \in 1..Len(links) |-> mapLinkLevel1Only(links[k])],
              LAMBDA ad : Truthy(ad.id))

(* faulty variant: every entry is appended, duplicates stay *)
mapSetAppendAlways(m, ad) == Append(m, ad)

(* faulty variant: an existing key keeps its first value *)
mapSetKeepFirst(m, ad) ==
    IF \E k \in 1..Len(m) : m[k].id = ad.id THEN m ELSE Append(m, ad)

(* Map.prototype.set: an existing key keeps its position and takes the new *)
(* value; a new key is appended.                                           *)
mapSet(m, ad) ==
    IF \E k \in 1..Len(m) : m[k].id = ad.id
    THEN [m EXCEPT ![CHOOSE k \in 1..Len(m) : m[k].id = ad.id] = ad]
    ELSE Append(m, ad)

(* Array.from(new Map(ads.map(ad => [ad.id, ad])).values()) *)
RECURSIVE mapFromEntries(_, _)
mapFromEntries(ads, m) ==
    IF ads = <<>> THEN m ELSE mapFromEntries(Tail(ads), mapSet(m, Head(ads)))

uniqueAds(ads) == mapFromEntries(ads, <<>>)

(* Array.prototype.slice(0, n) *)
slice0(s, n) ==
    IF n >= 0 THEN SubSeq(s, 1, Min(n, Len(s)))
    ELSE SubSeq(s, 1, IF Len(s) + n > 0 THEN Len(s) + n ELSE 0)

(* options.maxAdsToProcess || 10 *)
DefaultMaxAds == 10

maxAdsToProcessOption(n) == IF n = 0 THEN DefaultMaxAds ELSE n

(* LinkedInAdScraper.level1Scraping: dedupe, drop video ads, truncate *)
level1Scraping(links, maxAds) ==
    LET unique   == uniqueAds(extractAdLinks(links))
        nonVideo == SelectSeq(unique, LAMBDA ad : ~ad.isVideo)
    IN  slice0(nonVideo, maxAdsToProcessOption(maxAds))

(* level1-only.js scrapeAdList(targetUrl, maxAds): dedupe, truncate *)
scrapeAdList(links, maxAds) ==
    slice0(uniqueAds(extractAllAds(links)), maxAds)

----------------------------------------------------------------------------
(* The listing page: what document.querySelectorAll returns *)

Segs == {<<"5">>, <<"3">>, <<"7">>, <<"x">>}

Hrefs == [seg : Segs, q : {"a", "b"}]

Links == [href : Hrefs, video : BOOLEAN]

BoundedSeq(S, n) == UNION {[1..k -> S] : k \in 0..n}

VARIABLES variant, links, maxAds, adsToProcess, dpc

dvars == <<variant, links, maxAds, adsToProcess, dpc>>

DiscoveryIdle ==
    /\ variant = "none"
    /\ links = <<>>
    /\ maxAds = 0
    /\ adsToProcess = <<>>
    /\ dpc = "idle"

InitDiscovery ==
    /\ variant \in {"main-scraper-lynx", "level1-only"}
    /\ links \in BoundedSeq(Links, MaxAnchors)
    /\ maxAds \in 0..MaxAnchors
    /\ adsToProcess = <<>>
    /\ dpc = "ready"

Level1Scraping ==
    /\ dpc = "ready"
    /\ variant = "main-scraper-lynx"
    /\ adsToProcess' = level1Scraping(links, maxAds)
    /\ dpc' = "returned"
    /\ UNCHANGED <<variant, links, maxAds>>

ScrapeAdList ==
    /\ dpc = "ready"
    /\ variant = "level1-only"
    /\ adsToProcess' = scrapeAdList(links, maxAds)
    /\ dpc' = "returned"
    /\ UNCHANGED <<variant, links, maxAds>>


----------------------------------------------------------------------------
(* Level 3: ImageDownloader *)

(* What the network does to one request *)
NetOutcomes == {"ok", "http_error", "request_error", "timeout", "file_error"}

errorMessage(net) ==
    CASE net = "http_error"    -> "HTTP 404: Not Found"
      [] net = "request_error" -> "socket hang up"
      [] net = "timeout"       -> "Request timeout"
      [] net = "file_error"    -> "ENOSPC: no space left on device"

(* ImageDownloader.generateFileName, without the Date.now() stamp and the  *)
(* extension: `${adId}_${imageType}` or `unknown_${imageType}`             *)
generateFileName(adId, imageType) ==
    [stem |-> IF Truthy(adId) THEN adId ELSE <<"u","n","k","n","o","w","n">>,
     tag  |-> imageType]

(* `${companyId}_logo${ext}` *)
logoFileName(cid) == [stem |-> cid, tag |-> "logo"]

(* ImageDownloader.downloadImage(url, fileName) on a disk holding the set  *)
(* of paths disk.  fs.createWriteStream creates the destination file       *)
(* before the request is answered; only the handler of the stream's        *)
(* 'error' event unlinks it.                                               *)
downloadImage(disk, url, fileName, net) ==
    LET created == disk \cup {fileName}
    IN  CASE net = "ok" ->
                [rejected |-> FALSE, disk |-> created,
                 value |-> [fileName |-> fileName, url |-> url]]
          [] net = "file_error" ->
                [rejected |-> TRUE, disk |-> created \ {fileName},
                 error |-> errorMessage(net)]
          [] OTHER ->
                [rejected |-> TRUE, disk |-> created,
                 error |-> errorMessage(net)]

(* r => !r.error on an entry of downloadAdImages' result *)
hasError(r) == "error" \in DOMAIN r

(* faulty variant: a rejected download is thrown on to the caller *)
downloadAdImagesRethrow(disk, adData, net) ==
    IF Truthy(adData.imageUrl)
    THEN LET fileName == generateFileName(adData.adId, "main_image")
             d == downloadImage(disk, adData.imageUrl, fileName, net)
         IN  IF d.rejected
             THEN [threw |-> TRUE, disk |-> d.disk, error |-> d.error,
                   results |-> <<>>,
                   attempts |-> <<[kind |-> "main", url |-> adData.imageUrl,
                                   path |-> fileName, net |-> net]>>]
             ELSE [threw |-> FALSE, disk |-> d.disk,
                   results |-> <<[type |-> "main_image",
                                  fileName |-> fileName,
                                  url |-> adData.imageUrl]>>,
                   attempts |-> <<[kind |-> "main", url |-> adData.imageUrl,
                                   path |-> fileName, net |-> net]>>]
    ELSE [threw |-> FALSE, disk |-> disk, results |-> <<>>, attempts |-> <<>>]

(* ImageDownloader.downloadAdImages(adData): the main image only; a        *)
(* rejected download becomes an entry with an error field.                 *)
downloadAdImages(disk, adData, net) ==
    IF Truthy(adData.imageUrl)
    THEN LET fileName == generateFileName(adData.adId, "main_image")
             d == downloadImage(disk, adData.imageUrl, fileName, net)
         IN  [threw |-> FALSE, disk |-> d.disk,
              results |->
                 IF d.rejected
                 THEN <<[type |-> "main_image", error |-> d.error,
                         url |-> adData.imageUrl]>>
                 ELSE <<[type |-> "main_image", fileName |-> fileName,
                         url |-> adData.imageUrl]>>,
              attempts |-> <<[kind |-> "main", url |-> adData.imageUrl,
                              path |-> fileName, net |-> net]>>]
    ELSE [threw |-> FALSE, disk |-> disk, results |-> <<>>, attempts |-> <<>>]

----------------------------------------------------------------------------
(* Level 2: level2ScrapingWithLynx *)

(* A detail page is what each regular expression of the extractor finds in *)
(* lynx's output: the raw capture of each rule (NoMatch when the rule does *)
(* not match) and the format labels that occur in the markup, in document  *)
(* order.                                                                  *)

SingleImageAd == <<"S","i","n","g","l","e"," ","I","m","a","g","e"," ","A","d">>

VideoAd == <<"V","i","d","e","o"," ","A","d">>

CarouselAd == <<"C","a","r","o","u","s","e","l"," ","A","d">>

CollectionAd == <<"C","o","l","l","e","c","t","i","o","n"," ","A","d">>

SponsoredStatusUpdate ==
    <<"S","P","O","N","S","O","R","E","D","_","S","T","A","T","U","S","_",
      "U","P","D","A","T","E">>

formatPatterns ==
    <<SingleImageAd, VideoAd, CarouselAd, CollectionAd, SponsoredStatusUpdate>>

(* faulty variant: the label that occurs first in the markup wins *)
extractAdFormatByPosition(labels) ==
    IF labels = <<>> THEN Null ELSE Head(labels)

(* stdout.match(pattern) for a label pattern: does the label occur *)
occurs(label, labels) == \E p \in 1..Len(labels) : labels[p] = label

(* for (const pattern of formatPatterns): the first pattern, in list       *)
(* order, that matches anywhere in the markup; labels are the label        *)
(* occurrences of the markup in document order                             *)
extractAdFormat(labels) ==
    IF \E k \in 1..Len(formatPatterns) : occurs(formatPatterns[k], labels)
    THEN formatPatterns[CHOOSE k \in 1..Len(formatPatterns) :
                           /\ occurs(formatPatterns[k], labels)
                           /\ \A j \in 1..(k - 1) :
                                 ~occurs(formatPatterns[j], labels)]
    ELSE Null

(* faulty variant: a rule whose capture is empty is passed over *)
firstNonEmptyMatch(rules) ==
    IF \E k \in 1..Len(rules) : rules[k] \notin {NoMatch, <<>>}
    THEN rules[CHOOSE k \in 1..Len(rules) :
                  /\ rules[k] \notin {NoMatch, <<>>}
                  /\ \A j \in 1..(k - 1) : rules[j] \in {NoMatch, <<>>}]
    ELSE NoMatch

(* let m = stdout.match(rule1); if (!m) m = stdout.match(rule2); ...: the  *)
(* capture of the first rule that matches, whatever it captured            *)
firstMatch(rules) ==
    IF \E k \in 1..Len(rules) : rules[k] # NoMatch
    THEN rules[CHOOSE k \in 1..Len(rules) :
                  /\ rules[k] # NoMatch
                  /\ \A j \in 1..(k - 1) : rules[j] = NoMatch]
    ELSE NoMatch

(* headlineMatch: the h2 rule, else the link rule; cleaned, or null *)
extractHeadline(page) ==
    LET m == firstMatch(page.headline)
    IN  IF m = NoMatch THEN Null ELSE decodeQuotAmp(stripTags(trim(m)))

(* companyMatch[1].trim().replace(/<[^>]*>/g, '').substring(0, 100) *)
CompanyMaxLen == 100

extractCompany(page) ==
    LET m == firstMatch(page.company)
    IN  IF m = NoMatch THEN Null
        ELSE SubSeq(stripTags(trim(m)), 1,
                    Min(CompanyMaxLen, Len(stripTags(trim(m)))))

extractUrl(m) == IF m = NoMatch THEN Null ELSE replaceAll(m, Amp, <<"&">>)

(* imageAltMatch[1].replace(/&quot;/g, '"').replace(/&amp;/g, '&') *)
extractImageAlt(page) ==
    LET m == firstMatch(page.imageAlt)
    IN  IF m = NoMatch THEN Null ELSE decodeQuotAmp(m)

Apos == <<"&","#","x","2","7",";">>

Num34 == <<"&","#","3","4",";">>

(* s.replace(/\n\s*\n/g, '\n'): a line feed, the white space after it up   *)
(* to the last line feed of that white space                               *)
RECURSIVE collapseBlankLines(_)
collapseBlankLines(s) ==
    IF s = <<>> THEN <<>>
    ELSE IF Head(s) = "\n"
            /\ \E k \in 2..Len(s) :
                  s[k] = "\n" /\ \A j \in 2..k : IsSpace(s[j])
         THEN LET stop == CHOOSE k \in 2..Len(s) :
                             /\ s[k] = "\n"
                             /\ \A j \in 2..k : IsSpace(s[j])
                             /\ \A l \in (k + 1)..Len(s) :
                                   ~(s[l] = "\n" /\ \A j \in 2..l : IsSpace(s[j]))
              IN  <<"\n">> \o collapseBlankLines(SubSeq(s, stop + 1, Len(s)))
         ELSE <<Head(s)>> \o collapseBlankLines(Tail(s))

SeeMore == <<"S","e","e"," ","m","o","r","e">>

(* description.split('See more')[0] *)
beforeFirst(s, sub) ==
    IF includes(s, sub)
    THEN SubSeq(s, 1, (CHOOSE k \in 0..(Len(s) - Len(sub)) :
                          /\ SubSeq(s, k + 1, k + Len(sub)) = sub
                          /\ \A j \in 0..(k - 1) :
                                SubSeq(s, j + 1, j + Len(sub)) # sub))
    ELSE s

(* the description: trimmed, tags stripped, the four escapes decoded,      *)
(* blank lines collapsed, trimmed, cut at "See more"                       *)
extractDescription(page) ==
    LET m == firstMatch(page.description)
        cleaned ==
            trim(collapseBlankLines(
                replaceAll(replaceAll(decodeQuotAmp(stripTags(trim(m))),
                                      Apos, <<"'">>),
                           Num34, <<"\"">>)))
    IN  IF m = NoMatch THEN Null
        ELSE IF Truthy(cleaned) /\ includes(cleaned, SeeMore)
             THEN trim(beforeFirst(cleaned, SeeMore))
             ELSE cleaned

(* ctaMatch[1].trim().replace(/<[^>]*>/g, '') *)
extractCta(page) ==
    LET m == firstMatch(page.cta)
    IN  IF m = NoMatch THEN Null ELSE stripTags(trim(m))

(* level2ScrapingWithLynx(adUrl) on the page lynx returned *)
level2ScrapingWithLynx(adUrl, page) ==
    [adId        |-> IF matchDetailId(adUrl) = NoMatch
                     THEN Null ELSE matchDetailId(adUrl),
     sourceUrl   |-> adUrl,
     headline    |-> extractHeadline(page),
     company     |-> extractCompany(page),
     imageUrl    |-> extractUrl(firstMatch(page.image)),
     imageAlt    |-> extractImageAlt(page),
     targetUrl   |-> extractUrl(firstMatch(page.target)),
     description |-> extractDescription(page),
     logoUrl     |-> extractUrl(firstMatch(page.logo)),
     adFormat    |-> extractAdFormat(page.labels),
     cta         |-> extractCta(page)]

----------------------------------------------------------------------------
(* Detail pages served to the pipeline *)

RawHi == <<" ","<","b",">","H","i","<","/","b",">"," ">>

RawEmpty == <<" ","<","b","r",">"," ">>

RawAmp == <<"A","&","a","m","p",";","B">>

ImgUrl == <<"i","?","a","&","a","m","p",";","b">>

LogoUrl == <<"l">>

(* a page on which no rule matches *)
BlankPage ==
    [headline    |-> <<NoMatch, NoMatch>>,
     company     |-> <<NoMatch, NoMatch, NoMatch>>,
     image       |-> <<NoMatch>>,
     imageAlt    |-> <<NoMatch, NoMatch, NoMatch>>,
     target      |-> <<NoMatch, NoMatch>>,
     description |-> <<NoMatch>>,
     logo        |-> <<NoMatch, NoMatch, NoMatch>>,
     cta         |-> <<NoMatch>>,
     labels      |-> <<>>]

PStatic ==
    [BlankPage EXCEPT !.headline = <<RawHi, NoMatch>>,
                      !.company = <<<<"C","o">>, NoMatch, NoMatch>>,
                      !.image = <<ImgUrl>>,
                      !.logo = <<LogoUrl, NoMatch, NoMatch>>,
                      !.labels = <<SingleImageAd>>]

PNoImage ==
    [BlankPage EXCEPT !.headline = <<<<"H","i">>, NoMatch>>,
                      !.logo = <<LogoUrl, NoMatch, NoMatch>>]

PVideo ==
    [BlankPage EXCEPT !.headline = <<<<"V">>, NoMatch>>,
                      !.company = <<<<"C","o">>, NoMatch, NoMatch>>,
                      !.image = <<ImgUrl>>,
                      !.logo = <<LogoUrl, NoMatch, NoMatch>>,
                      !.labels = <<VideoAd>>]

PNoHeadline ==
    [BlankPage EXCEPT !.company = <<<<"C","o">>, NoMatch, NoMatch>>,
                      !.image = <<ImgUrl>>,
                      !.logo = <<LogoUrl, NoMatch, NoMatch>>,
                      !.labels = <<CollectionAd, CarouselAd>>]

PEmptyHeadline ==
    [BlankPage EXCEPT !.headline = <<RawEmpty, <<"Y","o">>>>,
                      !.company = <<<<"C","o">>, NoMatch, NoMatch>>,
                      !.image = <<ImgUrl>>,
                      !.logo = <<LogoUrl, NoMatch, NoMatch>>,
                      !.labels = <<VideoAd>>]

PFallback ==
    [BlankPage EXCEPT !.headline = <<NoMatch, RawAmp>>,
                      !.image = <<ImgUrl>>,
                      !.labels = <<VideoAd, SingleImageAd>>]

PageNames ==
    {"PStatic", "PNoImage", "PVideo", "PNoHeadline", "PEmptyHeadline", "PFallback"}

Page(name) ==
    CASE name = "PStatic"        -> PStatic
      [] name = "PNoImage"       -> PNoImage
      [] name = "PVideo"         -> PVideo
      [] name = "PNoHeadline"    -> PNoHeadline
      [] name = "PEmptyHeadline" -> PEmptyHeadline
      [] name = "PFallback"      -> PFallback

(* what execAsync(`lynx -source ...`) does: it rejects, or resolves with   *)
(* the markup of one of the pages                                          *)
FetchResults ==
    {[threw |-> TRUE, page |-> "none"]}
        \cup {[threw |-> FALSE, page |-> n] : n \in PageNames}

CompanyId == <<"8","9","7","7","1">>

DigitChars == <<"1","2","3","4","5","6","7","8","9">>

(* previousResults.failedAds of a retry run *)
FailedAds(n) ==
    [k \in 1..n |-> [adId |-> <<DigitChars[k]>>,
                     adUrl |-> [seg |-> <<DigitChars[k]>>, q |-> "a"],
                     reason |-> "No headline found"]]

(* the listing the pipeline discovers: ads 1, 2, ... in document order *)
Listing(n) ==
    [k \in 1..n |-> [href |-> [seg |-> <<DigitChars[k]>>, q |-> "a"],
                     video |-> FALSE]]

----------------------------------------------------------------------------
(* The extractor on its own: level2ScrapingWithLynx on one page *)

RawApos == <<"I","&","#","x","2","7",";","m">>

RawDesc ==
    <<" ","a","&","#","3","4",";","\n"," ","\n","b"," ",
      "S","e","e"," ","m","o","r","e","c">>

TextCaptures == {NoMatch, <<>>, RawHi, RawAmp}

HeadlineCaptures == {NoMatch, <<>>, RawApos}

(* the capture of the k-th rule of a URL field, or of an alt text *)
UrlCapture(c, k) == <<c, "&","a","m","p",";", DigitChars[k]>>

AltCapture(k) == <<"x","&","q","u","o","t",";", DigitChars[k]>>

(* pages that differ in what the rules of the text fields capture *)
TextPages ==
    {[BlankPage EXCEPT !.headline = h, !.company = c,
                       !.description = <<d>>, !.cta = <<d>>] :
        h \in HeadlineCaptures \X HeadlineCaptures,
        c \in TextCaptures \X TextCaptures \X TextCaptures,
        d \in {NoMatch, RawDesc}}

(* pages that differ in which rules of the URL fields and of the alt text  *)
(* match                                                                   *)
UrlPages ==
    {[BlankPage EXCEPT !.logo = l, !.target = t, !.imageAlt = al,
                       !.image = <<im>>] :
        l  \in {NoMatch, UrlCapture("l", 1)} \X {NoMatch, UrlCapture("l", 2)}
                 \X {NoMatch, UrlCapture("l", 3)},
        t  \in {NoMatch, UrlCapture("t", 1)} \X {NoMatch, UrlCapture("t", 2)},
        al \in {NoMatch, AltCapture(1)} \X {NoMatch, AltCapture(2)}
                 \X {NoMatch, AltCapture(3)},
        im \in {NoMatch, ImgUrl}}

ExtractPages == TextPages \cup UrlPages

DetailUrl == [seg |-> <<"7">>, q |-> "a"]

VARIABLES markup, data, epc

evars == <<markup, data, epc>>

NoData == [adId |-> Null]

ExtractIdle ==
    /\ markup = BlankPage
    /\ data = NoData
    /\ epc = "idle"

InitExtract ==
    /\ markup \in ExtractPages
    /\ data = NoData
    /\ epc = "ready"

(* the extraction of level2ScrapingWithLynx from the markup lynx returned *)
Level2Scraping ==
    /\ epc = "ready"
    /\ data' = level2ScrapingWithLynx(DetailUrl, markup)
    /\ epc' = "returned"
    /\ UNCHANGED markup

----------------------------------------------------------------------------
(* The file extension of an asset URL *)

(* new URL(url).pathname of "https://host" followed by rest: rest up to    *)
(* its first "?" or "#", and "/" when that is empty                        *)
pathname(rest) ==
    LET marks == {k \in 1..Len(rest) : rest[k] \in {"?", "#"}}
        path  == IF marks = {} THEN rest
                 ELSE SubSeq(rest, 1,
                             (CHOOSE k \in marks : \A j \in marks : k <= j) - 1)
    IN  IF path = <<>> THEN <<"/">> ELSE path

RECURSIVE stripTrailingSlashes(_)
stripTrailingSlashes(p) ==
    IF p # <<>> /\ p[Len(p)] = "/"
    THEN stripTrailingSlashes(SubSeq(p, 1, Len(p) - 1))
    ELSE p

basename(p) ==
    LET q       == stripTrailingSlashes(p)
        slashes == {k \in 1..Len(q) : q[k] = "/"}
    IN  IF slashes = {} THEN q
        ELSE SubSeq(q, (CHOOSE k \in slashes : \A j \in slashes : j <= k) + 1,
                    Len(q))

(* path.extname: from the last "." of the last path segment; empty without *)
(* a dot, when the dot is the segment's first character, and for ".."      *)
extname(p) ==
    LET b    == basename(p)
        dots == {k \in 1..Len(b) : b[k] = "."}
        d    == CHOOSE k \in dots : \A j \in dots : j <= k
    IN  IF dots = {} THEN <<>>
        ELSE IF d = 1 \/ b = <<".", ".">> THEN <<>>
        ELSE SubSeq(b, d, Len(b))

DotJpg == <<".","j","p","g">>

ImageExtensions ==
    {DotJpg, <<".","j","p","e","g">>, <<".","p","n","g">>,
     <<".","g","i","f">>, <<".","w","e","b","p">>, <<".","s","v","g">>}

(* ImageDownloader.getFileExtension(url); new URL throws on a string that  *)
(* is not an absolute URL                                                  *)
getFileExtension(url) ==
    IF ~url.absolute THEN [threw |-> TRUE, ext |-> <<>>]
    ELSE LET ext == toLowerCase(extname(pathname(url.rest)))
         IN  [threw |-> FALSE,
              ext |-> IF ext \in ImageExtensions THEN ext ELSE DotJpg]

(* downloadFromResults: the extension of `${ad.adId}${ext}`                *)
extensionFromResults(url) ==
    IF ~url.absolute THEN [threw |-> TRUE, ext |-> <<>>]
    ELSE LET ext == toLowerCase(extname(pathname(url.rest)))
         IN  [threw |-> FALSE,
              ext |-> IF ext = <<>> \/ ext = <<".","p","n","g","?">>
                      THEN DotJpg ELSE ext]

MaxUrlTokens == 3

UrlTokens ==
    {<<"/">>, <<"/","a">>, <<".","p","n","g">>, <<".","P","N","G">>,
     <<".","j","p","e","g">>, <<".","b","m","p">>, <<"?","v","=">>}

RECURSIVE flatten(_)
flatten(ts) == IF ts = <<>> THEN <<>> ELSE Head(ts) \o flatten(Tail(ts))

(* what follows the host of an asset URL: nothing, or a path or a query *)
UrlRests ==
    {flatten(ts) : ts \in {t \in BoundedSeq(UrlTokens, MaxUrlTokens) :
                              t = <<>> \/ Head(Head(t)) \in {"/", "?"}}}

VARIABLES assetUrl, fileExt, fpc

fvars == <<assetUrl, fileExt, fpc>>

NoExt == [by |-> "none", threw |-> FALSE, ext |-> <<>>]

FileExtIdle ==
    /\ assetUrl = [absolute |-> TRUE, rest |-> <<>>]
    /\ fileExt = NoExt
    /\ fpc = "idle"

InitFileExt ==
    /\ assetUrl \in [absolute : BOOLEAN, rest : UrlRests]
    /\ fileExt = NoExt
    /\ fpc = "ready"

(* the pipeline names the file of an asset: generateFileName and the logo  *)
(* branch call getFileExtension                                            *)
GetFileExtension ==
    /\ fpc = "ready"
    /\ \E r \in {getFileExtension(assetUrl)} :
          fileExt' = [by |-> "getFileExtension", threw |-> r.threw, ext |-> r.ext]
    /\ fpc' = "returned"
    /\ UNCHANGED assetUrl

(* downloadFromResults names the file of an image of a results file *)
DownloadFromResults ==
    /\ fpc = "ready"
    /\ \E r \in {extensionFromResults(assetUrl)} :
          fileExt' = [by |-> "downloadFromResults", threw |-> r.threw,
                      ext |-> r.ext]
    /\ fpc' = "returned"
    /\ UNCHANGED assetUrl

----------------------------------------------------------------------------
(* The browser-based detail path: level2Scraping and scrapeAdDetails *)

(* How the direct attempt ends: newPage rejects (page stays undefined);    *)
(* goto or title rejects, or the title says the page is blocked (the page  *)
(* is open); or the page is loaded.                                        *)
DirectOutcomes == {"loaded", "new_page_failed", "goto_failed", "blocked"}

(* How the unblock endpoint fallback ends: getUnblockEndpoint throws,      *)
(* puppeteer.connect rejects, browser.pages() rejects, pages[0] is         *)
(* undefined, waitForSelector rejects, or the page is there.               *)
UnblockOutcomes ==
    {"loaded", "endpoint_failed", "connect_failed", "pages_failed",
     "no_page", "wait_failed"}

EvaluateOutcomes == {"returned", "rejected"}

(* the answers of the browser and of the provider to one call; a build of  *)
(* puppeteer either rejects close() on a page that is closed already       *)
(* ("Protocol error: Connection closed") or resolves it                    *)
DetailEnvs ==
    [direct : DirectOutcomes, unblock : UnblockOutcomes,
     evaluate : EvaluateOutcomes, closedPageCloseRejects : BOOLEAN]

(* the fallback after a failed direct attempt, or without a browser to     *)
(* try directly: page is what the variable page held before                *)
unblockAttempt(env, page) ==
    CASE env.unblock \in {"endpoint_failed", "connect_failed"} ->
            [threw |-> TRUE, page |-> page, browser |-> FALSE, open |-> {}]
      [] env.unblock = "pages_failed" ->
            [threw |-> TRUE, page |-> page, browser |-> TRUE,
             open |-> {"unblockBrowser"}]
      [] env.unblock = "no_page" ->
            [threw |-> TRUE, page |-> "undefined", browser |-> TRUE,
             open |-> {"unblockBrowser"}]
      [] env.unblock = "wait_failed" ->
            [threw |-> TRUE, page |-> "unblockPage", browser |-> TRUE,
             open |-> {"unblockBrowser", "unblockPage"}]
      [] OTHER ->
            [threw |-> FALSE, page |-> "unblockPage", browser |-> TRUE,
             open |-> {"unblockBrowser", "unblockPage"}]

(* page.evaluate(...) on the page that was reached *)
evaluateDetails(c, env) ==
    IF c.threw THEN c
    ELSE [c EXCEPT !.threw = env.evaluate = "rejected"]

(* finally { if (page) await page.close();                                 *)
(*           if (useUnblock && browser) await browser.close(); }           *)
(* A rejected page.close() leaves the block before browser.close().        *)
finallyClose(c, useUnblock, env) ==
    LET closesPage  == c.page \in {"directPage", "unblockPage"}
        pageRejects == c.page = "closedPage" /\ env.closedPageCloseRejects
        afterPage   == IF closesPage THEN c.open \ {c.page} ELSE c.open
    IN  IF pageRejects
        THEN [threw |-> TRUE, open |-> afterPage]
        ELSE [threw |-> c.threw,
              open |-> IF useUnblock /\ c.browser
                       THEN afterPage \ {"unblockBrowser", "unblockPage"}
                       ELSE afterPage]

(* LinkedInAdScraper.level2Scraping(adUrl): the catch of the direct        *)
(* attempt closes the page and leaves the variable page as it is           *)
level2Scraping(env) ==
    IF env.direct = "loaded"
    THEN finallyClose(
             evaluateDetails([threw |-> FALSE, page |-> "directPage",
                              browser |-> FALSE, open |-> {"directPage"}],
                             env),
             FALSE, env)
    ELSE finallyClose(
             evaluateDetails(
                 unblockAttempt(env, IF env.direct = "new_page_failed"
                                     THEN "undefined" ELSE "closedPage"),
                 env),
             TRUE, env)

(* scrapeAdDetails(adUrl, existingBrowser): the catch of the direct        *)
(* attempt closes the page and sets page = null; without existingBrowser   *)
(* the unblock endpoint is used at once                                    *)
scrapeAdDetails(existingBrowser, env) ==
    IF existingBrowser /\ env.direct = "loaded"
    THEN finallyClose(
             evaluateDetails([threw |-> FALSE, page |-> "directPage",
                              browser |-> FALSE, open |-> {"directPage"}],
                             env),
             FALSE, env)
    ELSE finallyClose(
             evaluateDetails(
                 unblockAttempt(env, IF ~existingBrowser
                                        \/ env.direct = "new_page_failed"
                                     THEN "undefined" ELSE "null"),
                 env),
             TRUE, env)

MaxCandidates == 2

VARIABLES script, existingBrowser, candidate, connections, lastDetail

bvars == <<script, existingBrowser, candidate, connections, lastDetail>>

NoDetail == [threw |-> FALSE]

BrowserIdle ==
    /\ script = "none"
    /\ existingBrowser = FALSE
    /\ candidate = 0
    /\ connections = {}
    /\ lastDetail = NoDetail

(* main-scraper.js always holds this.browser when its loop runs;           *)
(* level2-batch.js goes on without a browser when puppeteer.launch failed  *)
InitDetailPath ==
    /\ script \in {"main-scraper", "level2-batch"}
    /\ existingBrowser \in IF script = "main-scraper" THEN {TRUE} ELSE BOOLEAN
    /\ candidate = 0
    /\ connections = {}
    /\ lastDetail = NoDetail

(* one iteration of the loop of processAds (main-scraper.js): the call of  *)
(* level2Scraping, an exception of which the iteration catches             *)
BrowserLevel2Scraping ==
    /\ script = "main-scraper"
    /\ candidate < MaxCandidates
    /\ \E env \in DetailEnvs :
          \E r \in {level2Scraping(env)} :
              /\ connections' = connections
                    \cup {[candidate |-> candidate + 1, resource |-> x] :
                             x \in r.open}
              /\ lastDetail' = [threw |-> r.threw, env |-> env]
    /\ candidate' = candidate + 1
    /\ UNCHANGED <<script, existingBrowser>>

(* one iteration of the loop of processAdsFromFile (level2-batch.js) *)
ProcessAdsFromFile ==
    /\ script = "level2-batch"
    /\ candidate < MaxCandidates
    /\ \E env \in DetailEnvs :
          \E r \in {scrapeAdDetails(existingBrowser, env)} :
              /\ connections' = connections
                    \cup {[candidate |-> candidate + 1, resource |-> x] :
                             x \in r.open}
              /\ lastDetail' = [threw |-> r.threw, env |-> env]
    /\ candidate' = candidate + 1
    /\ UNCHANGED <<script, existingBrowser>>

----------------------------------------------------------------------------
(* The detail pipeline: LinkedInAdScraper.processAds *)

(* faulty variant: a record without an image counts as having no headline *)
hasHeadlineAndImage(adDetails) ==
    Truthy(adDetails.headline) /\ Truthy(adDetails.imageUrl)

(* if (adDetails && adDetails.headline) *)
hasHeadline(adDetails) == Truthy(adDetails.headline)

(* faulty variant: the format is searched without lowercasing it *)
isVideoAdCaseSensitive(adDetails) ==
    /\ Truthy(adDetails.adFormat)
    /\ includes(adDetails.adFormat, <<"v","i","d","e","o">>)

(* adDetails.adFormat && adDetails.adFormat.toLowerCase().includes('video') *)
isVideoAd(adDetails) ==
    /\ Truthy(adDetails.adFormat)
    /\ includes(toLowerCase(adDetails.adFormat), <<"v","i","d","e","o">>)

bump(summary, field, n) == [summary EXCEPT ![field] = @ + n]

countOk(rs) == Cardinality({k \in 1..Len(rs) : ~hasError(rs[k])})

(* what updateDirectoryWithCompanyName(companyName, companyId) does to the  *)
(* output directory: it renames the directory that createCompanyDirectory  *)
(* made (this.originalDirPath), and returns at once when there is none     *)
renameDirectory(outputDir, company, st) ==
    [provisional |-> FALSE,
     name |-> IF outputDir.provisional THEN company ELSE outputDir.name,
     requests |-> Append(outputDir.requests,
                         [company |-> company,
                          records |-> Len(st.processedAds),
                          fetches |-> Len(st.fetchLog)])]

(* faulty variant: the directory is updated for every record with a company *)
updateDirectoryWithCompanyNameEveryRecord(st, adDetails) ==
    IF Truthy(adDetails.company)
    THEN [st EXCEPT !.outputDir = renameDirectory(@, adDetails.company, st)]
    ELSE st

(* "Update directory name with actual company name if this is the first    *)
(* ad": if (results.processedAds.length === 0 && adDetails.company)        *)
(* this.updateDirectoryWithCompanyName(adDetails.company, companyId)       *)
updateDirectoryWithCompanyName(st, adDetails) ==
    IF Len(st.processedAds) = 0 /\ Truthy(adDetails.company)
    THEN [st EXCEPT !.outputDir = renameDirectory(@, adDetails.company, st)]
    ELSE st

(* faulty variant: an image URL that was fetched before is not fetched again *)
downloadMainImageOncePerUrl(st, adDetails, net) ==
    IF ~Truthy(adDetails.imageUrl)
       \/ \E k \in 1..Len(st.fetchLog) :
             /\ st.fetchLog[k].kind = "main"
             /\ st.fetchLog[k].url = adDetails.imageUrl
    THEN st
    ELSE LET d == downloadAdImages(st.disk, adDetails, net)
         IN  [st EXCEPT
                 !.disk = d.disk,
                 !.fetchLog = @ \o d.attempts,
                 !.downloadResults =
                     Append(@, [adId |-> adDetails.adId,
                                results |-> d.results]),
                 !.summary =
                     bump(bump(@, "successfulDownloads", countOk(d.results)),
                          "failedDownloads",
                          Len(d.results) - countOk(d.results))]

(* "Download main ad image": the try/catch around downloadAdImages *)
downloadMainImage(st, adDetails, net) ==
    IF ~Truthy(adDetails.imageUrl) THEN st
    ELSE LET d == downloadAdImages(st.disk, adDetails, net)
         IN  IF d.threw
             THEN [st EXCEPT !.disk = d.disk,
                             !.fetchLog = @ \o d.attempts,
                             !.summary = bump(@, "failedDownloads", 1)]
             ELSE [st EXCEPT
                     !.disk = d.disk,
                     !.fetchLog = @ \o d.attempts,
                     !.downloadResults =
                         Append(@, [adId |-> adDetails.adId,
                                    results |-> d.results]),
                     !.summary =
                         bump(bump(@, "successfulDownloads", countOk(d.results)),
                              "failedDownloads",
                              Len(d.results) - countOk(d.results))]

(* faulty variant: the logo is fetched without looking at companyId *)
downloadCompanyLogoWithoutCompany(st, adDetails, cid, net) ==
    IF ~(Truthy(adDetails.logoUrl)
         /\ cid \notin st.downloadedLogosByCompany)
    THEN st
    ELSE LET fileName == logoFileName(cid)
             d == downloadImage(st.disk, adDetails.logoUrl, fileName, net)
         IN  [st EXCEPT
                !.disk = d.disk,
                !.fetchLog = Append(@, [kind |-> "companion",
                                        url |-> adDetails.logoUrl,
                                        path |-> fileName, net |-> net]),
                !.downloadedLogosByCompany =
                    IF d.rejected THEN @ ELSE @ \cup {cid}]

(* faulty variant: the company is never added to the set *)
downloadCompanyLogoNeverMarks(st, adDetails, cid, net) ==
    IF ~(Truthy(adDetails.logoUrl) /\ Truthy(cid)
         /\ cid \notin st.downloadedLogosByCompany)
    THEN st
    ELSE LET fileName == logoFileName(cid)
             d == downloadImage(st.disk, adDetails.logoUrl, fileName, net)
         IN  [st EXCEPT
                !.disk = d.disk,
                !.fetchLog = Append(@, [kind |-> "companion",
                                        url |-> adDetails.logoUrl,
                                        path |-> fileName, net |-> net])]

(* faulty variant: a rejected logo download leaves the try block *)
downloadCompanyLogoRethrow(st, adDetails, cid, net) ==
    IF ~(Truthy(adDetails.logoUrl) /\ Truthy(cid)
         /\ cid \notin st.downloadedLogosByCompany)
    THEN st
    ELSE LET fileName == logoFileName(cid)
             d == downloadImage(st.disk, adDetails.logoUrl, fileName, net)
         IN  [st EXCEPT
                !.disk = d.disk,
                !.fetchLog = Append(@, [kind |-> "companion",
                                        url |-> adDetails.logoUrl,
                                        path |-> fileName, net |-> net]),
                !.threw = d.rejected,
                !.downloadedLogosByCompany =
                    IF d.rejected THEN @ ELSE @ \cup {cid}]

(* "Download company logo (only once per company)": the company is added   *)
(* to downloadedLogosByCompany after downloadImage resolved, and a         *)
(* rejection is caught and logged.                                         *)
downloadCompanyLogo(st, adDetails, cid, net) ==
    IF ~(Truthy(adDetails.logoUrl) /\ Truthy(cid)
         /\ cid \notin st.downloadedLogosByCompany)
    THEN st
    ELSE LET fileName == logoFileName(cid)
             d == downloadImage(st.disk, adDetails.logoUrl, fileName, net)
         IN  [st EXCEPT
                !.disk = d.disk,
                !.fetchLog = Append(@, [kind |-> "companion",
                                        url |-> adDetails.logoUrl,
                                        path |-> fileName, net |-> net]),
                !.downloadedLogosByCompany =
                    IF d.rejected THEN @ ELSE @ \cup {cid}]

(* faulty variant: the error leaves the loop *)
catchAdErrorRethrow(st) == [st EXCEPT !.aborted = TRUE]

(* faulty variant: the failed candidate is counted as a failed download too *)
catchAdErrorCountsDownload(st) ==
    [st EXCEPT !.summary = bump(bump(@, "failedDetails", 1),
                                "failedDownloads", 1),
               !.threw = FALSE,
               !.outcome = "failed"]

(* the catch block of one loop iteration: count the ad as failed, go on *)
catchAdError(st) ==
    [st EXCEPT !.summary = bump(@, "failedDetails", 1),
               !.threw = FALSE,
               !.outcome = "failed"]

(* faulty variant: the downloads are gated by level 2 instead of level 3 *)
handleAdDetailsDownloadAtLevel2(st, adDetails, level, cid, netMain, netLogo) ==
    IF hasHeadline(adDetails)
    THEN IF isVideoAd(adDetails)
         THEN [st EXCEPT !.summary = bump(@, "videoAdsSkipped", 1),
                         !.outcome = "skipped"]
         ELSE LET renamed == updateDirectoryWithCompanyName(st, adDetails)
                  pushed  == [renamed EXCEPT
                                !.processedAds = Append(@, adDetails),
                                !.summary = bump(@, "successfulDetails", 1),
                                !.outcome = "succeeded"]
                  main    == IF level >= 2
                             THEN downloadMainImage(pushed, adDetails, netMain)
                             ELSE pushed
              IN  IF level >= 2
                  THEN downloadCompanyLogo(main, adDetails, cid, netLogo)
                  ELSE main
    ELSE [st EXCEPT !.summary = bump(@, "failedDetails", 1),
                    !.outcome = "failed"]

(* faulty variant: a new record is put in front of the list *)
handleAdDetailsUnshift(st, adDetails, level, cid, netMain, netLogo) ==
    IF hasHeadline(adDetails)
    THEN IF isVideoAd(adDetails)
         THEN [st EXCEPT !.summary = bump(@, "videoAdsSkipped", 1),
                         !.outcome = "skipped"]
         ELSE LET renamed == updateDirectoryWithCompanyName(st, adDetails)
                  pushed  == [renamed EXCEPT
                                !.processedAds = <<adDetails>> \o @,
                                !.summary = bump(@, "successfulDetails", 1),
                                !.outcome = "succeeded"]
                  main    == IF level >= 3
                             THEN downloadMainImage(pushed, adDetails, netMain)
                             ELSE pushed
              IN  IF level >= 3
                  THEN downloadCompanyLogo(main, adDetails, cid, netLogo)
                  ELSE main
    ELSE [st EXCEPT !.summary = bump(@, "failedDetails", 1),
                    !.outcome = "failed"]

(* the try block of one loop iteration, once level2ScrapingWithLynx has    *)
(* returned adDetails                                                      *)
handleAdDetails(st, adDetails, level, cid, netMain, netLogo) ==
    IF hasHeadline(adDetails)
    THEN IF isVideoAd(adDetails)
         THEN [st EXCEPT !.summary = bump(@, "videoAdsSkipped", 1),
                         !.outcome = "skipped"]
         ELSE LET renamed == updateDirectoryWithCompanyName(st, adDetails)
                  pushed  == [renamed EXCEPT
                                !.processedAds = Append(@, adDetails),
                                !.summary = bump(@, "successfulDetails", 1),
                                !.outcome = "succeeded"]
                  main    == IF level >= 3
                             THEN downloadMainImage(pushed, adDetails, netMain)
                             ELSE pushed
              IN  IF level >= 3
                  THEN downloadCompanyLogo(main, adDetails, cid, netLogo)
                  ELSE main
    ELSE [st EXCEPT !.summary = bump(@, "failedDetails", 1),
                    !.outcome = "failed"]

(* faulty variant: the call is started and its promise is not awaited *)
notAwaited(op) == <<[ev |-> "start", op |-> op]>>

(* `await call(...)`: the caller goes on only when the promise of the      *)
(* call has settled, fulfilled or rejected                                 *)
awaited(op) == <<[ev |-> "start", op |-> op], [ev |-> "end", op |-> op]>>

(* the asset fetches of one iteration, each one awaited in its turn *)
RECURSIVE assetEvents(_)
assetEvents(attempts) ==
    IF attempts = <<>> THEN <<>>
    ELSE awaited([kind |-> Head(attempts).kind, url |-> Head(attempts).url])
            \o assetEvents(Tail(attempts))

(* what one loop iteration starts and waits for: the one call of           *)
(* level2ScrapingWithLynx (a single execAsync of lynx, not repeated when   *)
(* it rejects), then the asset fetches it made                             *)
iterationEvents(adUrl, attempts) ==
    awaited([kind |-> "detail", url |-> adUrl]) \o assetEvents(attempts)

(* faulty variant: the delay follows every candidate, the last included *)
delayAfterEveryRequest(index, length) == index < length

(* "Add delay between requests": if (i < adUrls.length - 1) await the      *)
(* timer, with the loop index i of the candidate just processed            *)
delayBetweenRequests(index, length) == index < length - 1

(* one iteration of the for loop over adUrls *)
processOneAd(st, adUrl, fetch, level, cid, netMain, netLogo) ==
    LET body  == IF fetch.threw THEN [st EXCEPT !.threw = TRUE]
                 ELSE handleAdDetails(st,
                          level2ScrapingWithLynx(adUrl, Page(fetch.page)),
                          level, cid, netMain, netLogo)
        tried == IF body.threw THEN catchAdError(body) ELSE body
    IN  IF tried.aborted THEN tried
        ELSE [tried EXCEPT !.summary = bump(@, "totalAdsProcessed", 1)]

----------------------------------------------------------------------------
(* The retry run: retryFailedAds *)

(* previousResults.failedAds as retryFailedAds reads it from a results     *)
(* file: undefined when the saved object has no such property              *)
previousFailedAds(previousResults) ==
    IF "failedAds" \in DOMAIN previousResults
    THEN previousResults.failedAds
    ELSE Null

(* !previousResults.failedAds || previousResults.failedAds.length === 0:   *)
(* "No failed ads to retry." and process.exit(0)                           *)
noFailedAdsToRetry(previousResults) ==
    \/ previousFailedAds(previousResults) = Null
    \/ previousFailedAds(previousResults) = <<>>

(* results.summary.stillFailed++ and results.failedAds.push({...}) *)
stillFailed(st, failedAd, reason) ==
    [st EXCEPT !.summary = bump(@, "stillFailed", 1),
               !.failedAds = Append(@, [adId |-> failedAd.adId,
                                        adUrl |-> failedAd.adUrl,
                                        reason |-> reason]),
               !.threw = FALSE,
               !.outcome = "failed"]

(* the try block of one retry iteration, once adDetails are there *)
handleRetryDetails(st, failedAd, adDetails, level, cid, netMain, netLogo) ==
    IF hasHeadline(adDetails)
    THEN IF isVideoAd(adDetails)
         THEN [st EXCEPT !.summary = bump(@, "videoAdsSkipped", 1),
                         !.outcome = "skipped"]
         ELSE LET pushed == [st EXCEPT
                               !.processedAds = Append(@, adDetails),
                               !.summary = bump(@, "successfulDetails", 1),
                               !.outcome = "succeeded"]
                  main   == IF level >= 3
                            THEN downloadMainImage(pushed, adDetails, netMain)
                            ELSE pushed
              IN  IF level >= 3
                  THEN downloadCompanyLogo(main, adDetails, cid, netLogo)
                  ELSE main
    ELSE stillFailed(st, failedAd, "No headline found (retry attempt)")

(* one iteration of the for loop over previousResults.failedAds *)
retryOneAd(st, failedAd, fetch, level, cid, netMain, netLogo) ==
    LET body == IF fetch.threw THEN [st EXCEPT !.threw = TRUE]
                ELSE handleRetryDetails(st, failedAd,
                         level2ScrapingWithLynx(failedAd.adUrl, Page(fetch.page)),
                         level, cid, netMain, netLogo)
    IN  IF body.threw
        THEN stillFailed(body, failedAd, "error (retry attempt)")
        ELSE body

----------------------------------------------------------------------------
(* The render session: initBrowser / closeBrowser *)

(* what the session provider does to one request: getUnblockEndpoint gets  *)
(* a non-ok response, puppeteer.connect rejects, or the session is there   *)
ProviderOutcomes == {"connected", "unblock_failed", "connect_failed"}

(* faulty variant: the credential is not looked at *)
initBrowserNoKeyCheck(key, handle, provider) ==
    CASE provider = "connected" ->
            [threw |-> FALSE, browser |-> "current",
             events |-> <<[op |-> "request", session |-> "current"],
                          [op |-> "acquire", session |-> "current"]>>]
      [] OTHER ->
            [threw |-> TRUE, browser |-> handle,
             events |-> <<[op |-> "request", session |-> "current"]>>]

(* initBrowser(targetUrl): without BROWSERLESS_API_KEY it throws at once;  *)
(* this.browser is assigned only when puppeteer.connect resolved, and      *)
(* keeps its earlier value otherwise.                                      *)
initBrowser(key, handle, provider) ==
    IF ~key
    THEN [threw |-> TRUE, browser |-> handle, events |-> <<>>]
    ELSE CASE provider = "connected" ->
                 [threw |-> FALSE, browser |-> "current",
                  events |-> <<[op |-> "request", session |-> "current"],
                               [op |-> "acquire", session |-> "current"]>>]
           [] OTHER ->
                 [threw |-> TRUE, browser |-> handle,
                  events |-> <<[op |-> "request", session |-> "current"]>>]

(* closeBrowser(): if (this.browser) await this.browser.close() *)
closeBrowser(handle, log) ==
    IF handle # "none"
    THEN Append(log, [op |-> "close", session |-> handle])
    ELSE log

(* how processAds gets to its loop: the provider's answer, whether         *)
(* level1Scraping throws, and the number of anchors of the listing         *)
StartOutcomes ==
    {[provider |-> p, threw |-> FALSE, n |-> 0] :
        p \in ProviderOutcomes \ {"connected"}}
      \cup {[provider |-> "connected", threw |-> TRUE, n |-> 0]}
      \cup {[provider |-> "connected", threw |-> FALSE, n |-> k] : k \in 0..MaxAds}

----------------------------------------------------------------------------
(* State of one run *)

VARIABLES mode, scrapingLevel, companyId, pc, browser, adUrls, i, results,
          downloadedLogosByCompany, disk, outputDir, fetchLog, trace, last,
          apiKey, sessionLog, argv

pvars == <<mode, scrapingLevel, companyId, pc, browser, adUrls, i, results,
           downloadedLogosByCompany, disk, outputDir, fetchLog, trace, last,
           apiKey, sessionLog, argv>>

nonPipeline == <<dvars, evars, fvars, bvars>>

vars == <<nonPipeline, pvars>>

NoLast == [index |-> 0]

retrySummary ==
    [totalAdsToRetry |-> 0, successfulDetails |-> 0, stillFailed |-> 0,
     videoAdsSkipped |-> 0, successfulDownloads |-> 0, failedDownloads |-> 0]

initialSummary ==
    [totalAdsFound |-> 0, totalAdsProcessed |-> 0, successfulDetails |-> 0,
     failedDetails |-> 0, videoAdsSkipped |-> 0, successfulDownloads |-> 0,
     failedDownloads |-> 0]

PipelineIdle ==
    /\ mode = "none"
    /\ scrapingLevel = 0
    /\ companyId = Null
    /\ pc = "idle"
    /\ browser = "none"
    /\ adUrls = <<>>
    /\ i = 0
    /\ results = [processedAds |-> <<>>]
    /\ downloadedLogosByCompany = {}
    /\ disk = {}
    /\ outputDir = [provisional |-> TRUE, name |-> Null, requests |-> <<>>]
    /\ fetchLog = <<>>
    /\ trace = <<>>
    /\ last = NoLast
    /\ apiKey = TRUE
    /\ sessionLog = <<>>
    /\ argv = Null

Init ==
    /\ DiscoveryIdle
    /\ ExtractIdle
    /\ FileExtIdle
    /\ BrowserIdle
    /\ mode \in {"scrape", "retry"}
    /\ scrapingLevel \in 1..3
    /\ companyId \in {Null, CompanyId}
    /\ pc = "start"
    /\ browser \in IF mode = "scrape" THEN {"none", "earlier"} ELSE {"none"}
    /\ apiKey \in BOOLEAN
    /\ sessionLog = <<>>
    /\ argv = Null
    /\ adUrls = <<>>
    /\ i = 0
    /\ results = IF mode = "scrape"
                 THEN [processedAds |-> <<>>, downloadResults |-> <<>>,
                       summary |-> initialSummary, endTime |-> FALSE,
                       saved |-> 0]
                 ELSE [processedAds |-> <<>>, failedAds |-> <<>>,
                       downloadResults |-> <<>>, summary |-> retrySummary,
                       endTime |-> FALSE, saved |-> 0]
    /\ downloadedLogosByCompany = {}
    /\ disk = {}
    /\ outputDir = [provisional |-> mode = "scrape",
                    name |-> IF mode = "scrape" THEN Null
                             ELSE <<"d","i","r">>,
                    requests |-> <<>>]
    /\ fetchLog = <<>>
    /\ trace = <<>>
    /\ last = NoLast

(* the answers the network can give in one iteration: an answer is drawn   *)
(* for the requests the iteration makes (those it logs when every request  *)
(* is answered with 200), and for no other                                 *)
netChoices(before, after, kind) ==
    IF \E k \in (Len(before) + 1)..Len(after) : after[k].kind = kind
    THEN NetOutcomes
    ELSE {"ok"}

(* the part of the run state that one loop iteration works on *)
iterationState ==
    [processedAds |-> results.processedAds,
     failedAds |-> IF mode = "retry" THEN results.failedAds ELSE <<>>,
     downloadResults |-> results.downloadResults,
     summary |-> results.summary,
     downloadedLogosByCompany |-> downloadedLogosByCompany,
     disk |-> disk, outputDir |-> outputDir, fetchLog |-> fetchLog,
     threw |-> FALSE, aborted |-> FALSE, outcome |-> "none"]

(* processAds up to the loop: initBrowser, level1Scraping, totalAdsFound;  *)
(* with no ads found the results are returned at once.  An exception of    *)
(* initBrowser or of level1Scraping leaves through the finally block,      *)
(* which calls closeBrowser.                                               *)
ProcessAdsLevel1 ==
    /\ mode = "scrape"
    /\ pc = "start"
    /\ \E start \in StartOutcomes :
          \E b \in {initBrowser(apiKey, browser, start.provider)} :
              /\ browser' = b.browser
              /\ IF b.threw \/ start.threw
                 THEN /\ pc' = "failed"
                      /\ sessionLog' = closeBrowser(b.browser,
                                                    sessionLog \o b.events)
                      /\ UNCHANGED <<adUrls, results>>
                 ELSE LET found == level1Scraping(Listing(start.n), MaxAds)
                      IN  /\ adUrls' = found
                          /\ results' = [results EXCEPT
                                           !.summary.totalAdsFound = Len(found)]
                          /\ pc' = IF Len(found) = 0 THEN "done"
                                   ELSE IF scrapingLevel >= 2 THEN "level2"
                                   ELSE "finish"
                          /\ sessionLog' =
                                IF Len(found) = 0
                                THEN closeBrowser(b.browser,
                                                  sessionLog \o b.events)
                                ELSE sessionLog \o b.events
    /\ UNCHANGED <<mode, scrapingLevel, companyId, i,
                   downloadedLogosByCompany, disk, outputDir, fetchLog,
                   trace, last, apiKey, argv>>
    /\ UNCHANGED nonPipeline

(* one iteration of the loop of processAds, the pacing delay included *)
ProcessAd ==
    /\ mode = "scrape"
    /\ pc = "level2"
    /\ i < Len(adUrls)
    /\ \E fetch \in FetchResults :
        \E probe \in {processOneAd(iterationState, adUrls[i + 1].url, fetch,
                                   scrapingLevel, companyId, "ok", "ok")} :
        \E netMain \in netChoices(fetchLog, probe.fetchLog, "main"),
           netLogo \in netChoices(fetchLog, probe.fetchLog, "companion") :
          \E st \in {processOneAd(iterationState, adUrls[i + 1].url, fetch,
                                  scrapingLevel, companyId, netMain, netLogo)} :
              /\ results' = [results EXCEPT
                               !.processedAds = st.processedAds,
                               !.downloadResults = st.downloadResults,
                               !.summary = st.summary]
              /\ downloadedLogosByCompany' = st.downloadedLogosByCompany
              /\ disk' = st.disk
              /\ outputDir' = st.outputDir
              /\ fetchLog' = st.fetchLog
              /\ trace' = Append(trace, [threw |-> fetch.threw,
                                         outcome |-> st.outcome,
                                         delay |-> ~st.aborted
                                            /\ delayBetweenRequests(i, Len(adUrls)),
                                         events |-> iterationEvents(
                                            adUrls[i + 1].url,
                                            SubSeq(st.fetchLog, Len(fetchLog) + 1,
                                                   Len(st.fetchLog)))])
              /\ last' = [index |-> i + 1, fetch |-> fetch,
                          outcome |-> st.outcome,
                          attempts |-> SubSeq(st.fetchLog, Len(fetchLog) + 1,
                                              Len(st.fetchLog))]
              /\ pc' = IF st.aborted THEN "aborted"
                       ELSE IF i + 1 = Len(adUrls) THEN "finish"
                       ELSE "level2"
              /\ sessionLog' = IF st.aborted
                               THEN closeBrowser(browser, sessionLog)
                               ELSE sessionLog
    /\ i' = i + 1
    /\ UNCHANGED <<mode, scrapingLevel, companyId, adUrls, browser, apiKey,
                   argv>>
    /\ UNCHANGED nonPipeline

(* the end of processAds: endTime, printSummary, saveResults, closeBrowser *)
FinishProcessAds ==
    /\ mode = "scrape"
    /\ pc = "finish"
    /\ results' = [results EXCEPT !.endTime = TRUE, !.saved = @ + 1]
    /\ sessionLog' = closeBrowser(browser, sessionLog)
    /\ pc' = "done"
    /\ UNCHANGED <<mode, scrapingLevel, companyId, adUrls, i, browser,
                   downloadedLogosByCompany, disk, outputDir, fetchLog,
                   trace, last, apiKey, argv>>
    /\ UNCHANGED nonPipeline

(* retryFailedAds up to the loop: the failed ads of the previous results,  *)
(* a new scraper, initBrowser (outside the try block: when it throws the   *)
(* run ends without closeBrowser), the fresh results object                *)
RetryStart ==
    /\ mode = "retry"
    /\ pc = "start"
    /\ \E provider \in ProviderOutcomes, n \in 1..MaxAds :
          \E b \in {initBrowser(apiKey, browser, provider)} :
              /\ browser' = b.browser
              /\ sessionLog' = sessionLog \o b.events
              /\ IF b.threw
                 THEN /\ pc' = "failed"
                      /\ UNCHANGED <<adUrls, results>>
                 ELSE /\ pc' = "level2"
                      /\ adUrls' = FailedAds(n)
                      /\ results' = [results EXCEPT
                                       !.summary.totalAdsToRetry = n]
    /\ UNCHANGED <<mode, scrapingLevel, companyId, i,
                   downloadedLogosByCompany, disk, outputDir, fetchLog,
                   trace, last, apiKey, argv>>
    /\ UNCHANGED nonPipeline

(* one iteration of the loop of retryFailedAds, the pacing delay included *)
RetryAd ==
    /\ mode = "retry"
    /\ pc = "level2"
    /\ i < Len(adUrls)
    /\ \E fetch \in FetchResults :
        \E probe \in {retryOneAd(iterationState, adUrls[i + 1], fetch,
                                 scrapingLevel, companyId, "ok", "ok")} :
        \E netMain \in netChoices(fetchLog, probe.fetchLog, "main"),
           netLogo \in netChoices(fetchLog, probe.fetchLog, "companion") :
          \E st \in {retryOneAd(iterationState, adUrls[i + 1], fetch,
                                scrapingLevel, companyId, netMain, netLogo)} :
              /\ results' = [results EXCEPT
                               !.processedAds = st.processedAds,
                               !.failedAds = st.failedAds,
                               !.downloadResults = st.downloadResults,
                               !.summary = st.summary]
              /\ downloadedLogosByCompany' = st.downloadedLogosByCompany
              /\ disk' = st.disk
              /\ fetchLog' = st.fetchLog
              /\ trace' = Append(trace, [threw |-> fetch.threw,
                                         outcome |-> st.outcome,
                                         delay |-> delayBetweenRequests(i, Len(adUrls)),
                                         events |-> iterationEvents(
                                            adUrls[i + 1].adUrl,
                                            SubSeq(st.fetchLog, Len(fetchLog) + 1,
                                                   Len(st.fetchLog)))])
              /\ last' = [index |-> i + 1, fetch |-> fetch,
                          outcome |-> st.outcome,
                          attempts |-> SubSeq(st.fetchLog, Len(fetchLog) + 1,
                                              Len(st.fetchLog))]
    /\ i' = i + 1
    /\ pc' = IF i + 1 = Len(adUrls) THEN "finish" ELSE "level2"
    /\ UNCHANGED <<mode, scrapingLevel, companyId, browser, adUrls, outputDir,
                   apiKey, sessionLog, argv>>
    /\ UNCHANGED nonPipeline

(* the end of retryFailedAds: endTime, summary, the retry results file,    *)
(* closeBrowser                                                            *)
RetryFinish ==
    /\ mode = "retry"
    /\ pc = "finish"
    /\ results' = [results EXCEPT !.endTime = TRUE, !.saved = @ + 1]
    /\ sessionLog' = closeBrowser(browser, sessionLog)
    /\ pc' = "done"
    /\ UNCHANGED <<mode, scrapingLevel, companyId, adUrls, i, browser,
                   downloadedLogosByCompany, disk, outputDir, fetchLog,
                   trace, last, apiKey, argv>>
    /\ UNCHANGED nonPipeline

Next ==
    \/ ProcessAdsLevel1
    \/ ProcessAd
    \/ FinishProcessAds
    \/ RetryStart
    \/ RetryAd
    \/ RetryFinish

Spec == Init /\ [][Next]_vars

----------------------------------------------------------------------------
(* The command line of main-scraper-lynx.js: main() *)

DigitValue(c) ==
    CHOOSE d \in 0..9 : <<"0","1","2","3","4","5","6","7","8","9">>[d + 1] = c

RECURSIVE digitsValue(_, _)
digitsValue(ds, acc) ==
    IF ds = <<>> THEN acc
    ELSE digitsValue(Tail(ds), 10 * acc + DigitValue(Head(ds)))

(* parseInt(s): leading white space is skipped, then an optional sign and  *)
(* the longest run of decimal digits are read; without a digit the result  *)
(* is NaN.  An argument that was not given (undefined) parses to NaN too.  *)
parseInt(s) ==
    LET t    == trimStart(s)
        neg  == t # <<>> /\ Head(t) = "-"
        body == IF t # <<>> /\ Head(t) \in {"-", "+"} THEN Tail(t) ELSE t
        ds   == leadingDigits(body)
    IN  IF s = Null \/ ds = <<>>
        THEN [nan |-> TRUE, value |-> 0]
        ELSE [nan |-> FALSE,
              value |-> IF neg THEN 0 - digitsValue(ds, 0)
                        ELSE digitsValue(ds, 0)]

(* parseInt(process.argv[4]) || 3 *)
DefaultScrapingLevel == 3

orDefault(parsed, default) ==
    IF parsed.nan \/ parsed.value = 0 THEN default ELSE parsed.value

(* process.argv[4] as typed, or Null when it is not given *)
DepthArguments ==
    {Null, <<"0">>, <<"1">>, <<"2">>, <<"3">>, <<"4">>, <<"-","1">>,
     <<"x">>, <<"2","x">>}

InitMain ==
    /\ DiscoveryIdle
    /\ ExtractIdle
    /\ FileExtIdle
    /\ BrowserIdle
    /\ mode = "scrape"
    /\ scrapingLevel = 0
    /\ companyId \in {Null, CompanyId}
    /\ pc = "main"
    /\ browser = "none"
    /\ apiKey \in BOOLEAN
    /\ sessionLog = <<>>
    /\ argv \in DepthArguments
    /\ adUrls = <<>>
    /\ i = 0
    /\ results = [processedAds |-> <<>>, downloadResults |-> <<>>,
                  summary |-> initialSummary, endTime |-> FALSE, saved |-> 0]
    /\ downloadedLogosByCompany = {}
    /\ disk = {}
    /\ outputDir = [provisional |-> TRUE, name |-> Null, requests |-> <<>>]
    /\ fetchLog = <<>>
    /\ trace = <<>>
    /\ last = NoLast

(* main() up to the call of processAds: the scraping level is parsed and   *)
(* defaulted, a level outside 1..3 ends the process with exit code 1       *)
Main ==
    /\ mode = "scrape"
    /\ pc = "main"
    /\ \E level \in {orDefault(parseInt(argv), DefaultScrapingLevel)} :
          /\ scrapingLevel' = level
          /\ pc' = IF level < 1 \/ level > 3 THEN "exit" ELSE "start"
    /\ UNCHANGED <<mode, companyId, browser, adUrls, i, results,
                   downloadedLogosByCompany, disk, outputDir, fetchLog,
                   trace, last, apiKey, sessionLog, argv>>
    /\ UNCHANGED nonPipeline

NextMain ==
    \/ Main
    \/ ProcessAdsLevel1
    \/ ProcessAd
    \/ FinishProcessAds

SpecMain == InitMain /\ [][NextMain]_vars

(* Discovery on its own: the listing is the input, the run state is idle *)
InitDiscoveryOnly ==
    InitDiscovery /\ PipelineIdle /\ ExtractIdle /\ FileExtIdle /\ BrowserIdle

Level1ScrapingOnly ==
    Level1Scraping /\ UNCHANGED <<pvars, evars, fvars, bvars>>

ScrapeAdListOnly ==
    ScrapeAdList /\ UNCHANGED <<pvars, evars, fvars, bvars>>

NextDiscovery == Level1ScrapingOnly \/ ScrapeAdListOnly

SpecDiscovery == InitDiscoveryOnly /\ [][NextDiscovery]_vars

(* The extractor on its own: the page is the input *)
InitExtractOnly ==
    InitExtract /\ DiscoveryIdle /\ PipelineIdle /\ FileExtIdle /\ BrowserIdle

Level2ScrapingOnly ==
    Level2Scraping /\ UNCHANGED <<dvars, pvars, fvars, bvars>>

NextExtract == Level2ScrapingOnly

SpecExtract == InitExtractOnly /\ [][NextExtract]_vars

(* The naming of asset files on its own: the URL is the input *)
InitFileExtOnly ==
    InitFileExt /\ DiscoveryIdle /\ PipelineIdle /\ ExtractIdle /\ BrowserIdle

GetFileExtensionOnly ==
    GetFileExtension /\ UNCHANGED <<dvars, pvars, evars, bvars>>

DownloadFromResultsOnly ==
    DownloadFromResults /\ UNCHANGED <<dvars, pvars, evars, bvars>>

NextFileExt == GetFileExtensionOnly \/ DownloadFromResultsOnly

SpecFileExt == InitFileExtOnly /\ [][NextFileExt]_vars

(* The browser-based detail path on its own *)
InitDetailPathOnly ==
    InitDetailPath /\ DiscoveryIdle /\ PipelineIdle /\ ExtractIdle /\ FileExtIdle

BrowserLevel2ScrapingOnly ==
    BrowserLevel2Scraping /\ UNCHANGED <<dvars, pvars, evars, fvars>>

ProcessAdsFromFileOnly ==
    ProcessAdsFromFile /\ UNCHANGED <<dvars, pvars, evars, fvars>>

NextDetailPath == BrowserLevel2ScrapingOnly \/ ProcessAdsFromFileOnly

SpecDetailPath == InitDetailPathOnly /\ [][NextDetailPath]_vars

----------------------------------------------------------------------------
(* Properties of discovery (checked under SpecDiscovery) *)

(* the id the k-th anchor of the listing parses to; <<>> when it has none *)
anchorId(k) == leadingDigits(links[k].href.seg)

firstIndex(id) ==
    CHOOSE k \in 1..Len(links) :
        anchorId(k) = id /\ \A j \in 1..(k - 1) : anchorId(j) # id

lastIndex(id) ==
    CHOOSE k \in 1..Len(links) :
        anchorId(k) = id /\ \A j \in (k + 1)..Len(links) : anchorId(j) # id

resultIds == [r \in 1..Len(adsToProcess) |-> adsToProcess[r].id]

(* C6, as claimed: every returned candidate carries the URL, and in the    *)
(* pre-filter variant the video flag, of the FIRST anchor with its id.     *)
C6_FirstOccurrenceKept ==
    dpc = "returned" =>
        \A r \in 1..Len(adsToProcess) :
            /\ adsToProcess[r].url = links[firstIndex(adsToProcess[r].id)].href
            /\ variant = "main-scraper-lynx" =>
                  adsToProcess[r].isVideo
                      = links[firstIndex(adsToProcess[r].id)].video

(* C6, amended: every returned candidate carries the URL, and in the       *)
(* pre-filter variant the video flag, of the LAST anchor with its id in    *)
(* document order.                                                         *)
C6_LastOccurrenceKept ==
    dpc = "returned" =>
        \A r \in 1..Len(adsToProcess) :
            /\ adsToProcess[r].url = links[lastIndex(adsToProcess[r].id)].href
            /\ variant = "main-scraper-lynx" =>
                  adsToProcess[r].isVideo
                      = links[lastIndex(adsToProcess[r].id)].video

(* a returned candidate whose id occurs twice, under two different URLs *)
C6_Witness ==
    /\ dpc = "returned"
    /\ \E r \in 1..Len(adsToProcess) :
          /\ firstIndex(adsToProcess[r].id) # lastIndex(adsToProcess[r].id)
          /\ links[firstIndex(adsToProcess[r].id)].href
                # links[lastIndex(adsToProcess[r].id)].href

(* C7: the returned ids are pairwise distinct, each is the parsed id of an *)
(* anchor (no candidate without an id), and they stand in the order of     *)
(* their first occurrence in the listing.                                  *)
C7_DedupOrder ==
    dpc = "returned" =>
        /\ \A a, b \in 1..Len(adsToProcess) :
              a # b => resultIds[a] # resultIds[b]
        /\ \A r \in 1..Len(adsToProcess) :
              /\ resultIds[r] # <<>>
              /\ \E k \in 1..Len(links) : anchorId(k) = resultIds[r]
        /\ \A a, b \in 1..Len(adsToProcess) :
              a < b => firstIndex(resultIds[a]) < firstIndex(resultIds[b])

(* anchors with ids 5, 3, 5 have been deduplicated to 5, 3 *)
C7_Witness ==
    /\ dpc = "returned"
    /\ Len(links) = 3
    /\ [k \in 1..3 |-> anchorId(k)] = << <<"5">>, <<"3">>, <<"5">> >>
    /\ resultIds = << <<"5">>, <<"3">> >>

(* the deduplicated (and, in the pre-filter variant, video-filtered)       *)
(* candidates before truncation                                            *)
discovered ==
    IF variant = "main-scraper-lynx"
    THEN SelectSeq(uniqueAds(extractAdLinks(links)), LAMBDA ad : ~ad.isVideo)
    ELSE uniqueAds(extractAllAds(links))

(* C8, as claimed: for every maxCandidates >= 0 the result is exactly the  *)
(* first min(maxCandidates, k) of the k discovered candidates.             *)
C8_Truncation ==
    dpc = "returned" =>
        /\ Len(adsToProcess) = Min(maxAds, Len(discovered))
        /\ adsToProcess = SubSeq(discovered, 1, Len(adsToProcess))

----------------------------------------------------------------------------
(* Properties of the detail pipeline (checked under Spec) *)

inLoop == pc \in {"level2", "finish", "done"} /\ scrapingLevel >= 2

(* the record extracted in the latest iteration, when its fetch returned *)
lastUrl ==
    IF mode = "scrape" THEN adUrls[last.index].url ELSE adUrls[last.index].adUrl

lastRecord == level2ScrapingWithLynx(lastUrl, Page(last.fetch.page))

lastFetched == last.index > 0 /\ ~last.fetch.threw

(* the fetch attempts of the run before the latest iteration *)
earlierLog == SubSeq(fetchLog, 1, Len(fetchLog) - Len(last.attempts))

companionAttempts(log) == {k \in 1..Len(log) : log[k].kind = "companion"}

mainAttempts(log) == {k \in 1..Len(log) : log[k].kind = "main"}

countOutcome(o) == Cardinality({k \in 1..Len(trace) : trace[k].outcome = o})

failedCounter ==
    IF mode = "scrape" THEN results.summary.failedDetails
    ELSE results.summary.stillFailed

(* C1, as claimed: in one run at most one companion fetch is attempted for *)
(* the run's groupKey, whether that attempt succeeded or failed.           *)
C1_OneCompanionAttempt == Cardinality(companionAttempts(fetchLog)) <= 1

(* C1, amended: in one run at most one companion fetch SUCCEEDS, and none  *)
(* is attempted after a success; as long as none has succeeded, every      *)
(* succeeded record with a logoUrl (groupKey present, level 3) attempts    *)
(* it, also after an earlier attempt failed.                               *)
C1_OneCompanionSuccess ==
    LET rec == lastRecord
    IN
        /\ \A j, k \in companionAttempts(fetchLog) :
              j < k => fetchLog[j].net # "ok"
        /\ (lastFetched /\ last.outcome = "succeeded" /\ scrapingLevel >= 3
                /\ companyId # Null /\ rec.logoUrl # Null
                /\ \A j \in companionAttempts(earlierLog) : earlierLog[j].net # "ok")
              => companionAttempts(last.attempts) # {}

(* a companion fetch succeeded for the first record; the second record,    *)
(* succeeded and carrying a logoUrl, attempted none                        *)
C1_Witness ==
    LET rec == lastRecord
    IN
        /\ last.index = 2
        /\ lastFetched /\ last.outcome = "succeeded" /\ rec.logoUrl # Null
        /\ companionAttempts(last.attempts) = {}
        /\ \E j \in companionAttempts(earlierLog) : earlierLog[j].net = "ok"

(* C2: no fetch failure aborts the run; every candidate is processed       *)
(* (totalAdsProcessed follows the loop and ends at totalAdsFound); and a   *)
(* candidate whose fetch returned gets the outcome and the record that its *)
(* own page alone determines, whatever happened to the others.             *)
C2_FaultIsolation ==
    LET rec == lastRecord
    IN
        /\ pc # "aborted"
        /\ inLoop => Len(trace) = i
        /\ (inLoop /\ mode = "scrape") => results.summary.totalAdsProcessed = i
        /\ (pc \in {"finish", "done"} /\ scrapingLevel >= 2 /\ mode = "scrape") =>
              /\ results.summary.totalAdsProcessed = Len(adUrls)
              /\ results.summary.totalAdsProcessed = results.summary.totalAdsFound
        /\ lastFetched =>
              /\ last.outcome =
                    IF rec.headline \in {Null, <<>>} THEN "failed"
                    ELSE IF rec.adFormat = VideoAd THEN "skipped"
                    ELSE "succeeded"
              /\ last.outcome = "succeeded" =>
                    results.processedAds[Len(results.processedAds)] = rec

(* two candidates, the first one's fetch threw, the second succeeded *)
C2_Witness ==
    /\ pc = "done" /\ mode = "scrape"
    /\ Len(adUrls) = 2 /\ Len(trace) = 2
    /\ trace[1].threw /\ ~trace[2].threw /\ trace[2].outcome = "succeeded"
    /\ results.summary.totalAdsProcessed = 2
    /\ results.summary.successfulDetails = 1
    /\ results.summary.failedDetails = 1

(* C3: every processed candidate has incremented exactly one of            *)
(* successfulDetails, failedDetails and videoAdsSkipped, so                *)
(* totalAdsProcessed is their sum after every iteration.                   *)
C3_CounterPartition ==
    mode = "scrape" =>
        /\ results.summary.totalAdsProcessed
              = results.summary.successfulDetails
                + results.summary.failedDetails
                + results.summary.videoAdsSkipped
        /\ results.summary.successfulDetails = countOutcome("succeeded")
        /\ results.summary.failedDetails = countOutcome("failed")
        /\ results.summary.videoAdsSkipped = countOutcome("skipped")

(* a failed candidate, then a succeeded one whose main and companion       *)
(* fetches both failed                                                     *)
C3_Witness ==
    /\ mode = "scrape" /\ pc = "done"
    /\ results.summary.failedDetails = 1
    /\ last.outcome = "succeeded"
    /\ Len(last.attempts) = 2
    /\ \A k \in 1..2 : last.attempts[k].net # "ok"

(* C4, as claimed: a record with a non-null headline and a video format is *)
(* skipped: not appended, no fetch, counted in classifiedSkipped only.     *)
C4_VideoWithHeadlineSkipped ==
    LET rec == lastRecord
    IN
        (lastFetched /\ rec.headline # Null /\ isVideoAd(rec)) =>
            /\ last.outcome = "skipped"
            /\ last.attempts = <<>>

(* C4, amended: a record with a non-empty headline whose format,           *)
(* lowercased, contains "video" is skipped: it is not appended to the      *)
(* output list, triggers no main or companion fetch and is counted in      *)
(* classifiedSkipped, not in failedDetails or successfulDetails; a record  *)
(* with a non-empty headline and a null or non-video format is not         *)
(* excluded.                                                               *)
C4_ClassifierGate ==
    LET rec == lastRecord
    IN
        /\ results.summary.videoAdsSkipped = countOutcome("skipped")
        /\ results.summary.successfulDetails = countOutcome("succeeded")
        /\ failedCounter = countOutcome("failed")
        /\ Len(results.processedAds) = countOutcome("succeeded")
        /\ (lastFetched /\ rec.headline \notin {Null, <<>>}) =>
              IF rec.adFormat # Null
                 /\ includes(toLowerCase(rec.adFormat), <<"v","i","d","e","o">>)
              THEN /\ last.outcome = "skipped"
                   /\ last.attempts = <<>>
                   /\ \A k \in 1..Len(results.processedAds) :
                         results.processedAds[k].sourceUrl # lastUrl
              ELSE /\ last.outcome = "succeeded"
                   /\ results.processedAds[Len(results.processedAds)] = rec

(* a "Video Ad" record with a headline has just been skipped at level 3 *)
C4_Witness ==
    LET rec == lastRecord
    IN
        /\ lastFetched /\ scrapingLevel = 3
        /\ rec.headline = <<"V">> /\ rec.adFormat = VideoAd
        /\ last.outcome = "skipped"
        /\ results.summary.videoAdsSkipped = 1

(* C5, as claimed: a fetched candidate is failed iff its headline is null *)
C5_FailedIffNullHeadline ==
    LET rec == lastRecord
    IN
        lastFetched => (last.outcome = "failed" <=> rec.headline = Null)

(* C5, amended: a fetched candidate is counted as failed iff its headline  *)
(* is null or empty; every record with a non-empty headline is succeeded   *)
(* or skipped whatever its other fields are, and a non-video one is        *)
(* appended to the output list even when its imageUrl is null.             *)
C5_FailedIffNoHeadline ==
    LET rec == lastRecord
    IN
        /\ failedCounter = countOutcome("failed")
        /\ lastFetched =>
              /\ last.outcome = "failed" <=> rec.headline \in {Null, <<>>}
              /\ (rec.headline \notin {Null, <<>>} /\ ~isVideoAd(rec)) =>
                    /\ last.outcome = "succeeded"
                    /\ results.processedAds[Len(results.processedAds)] = rec

(* a record with a headline, no format and no imageUrl has succeeded *)
C5_Witness ==
    LET rec == lastRecord
    IN
        /\ lastFetched
        /\ rec.headline = <<"H","i">>
        /\ rec.imageUrl = Null /\ rec.adFormat = Null
        /\ last.outcome = "succeeded"
        /\ results.processedAds[Len(results.processedAds)] = rec

(* C9, as claimed: after a failed asset fetch its destination path does    *)
(* not exist.                                                              *)
C9_NoDanglingPartial ==
    last.index > 0 =>
        \A k \in 1..Len(last.attempts) :
            last.attempts[k].net # "ok" => last.attempts[k].path \notin disk

(* C10: a failed main fetch leaves an entry with an error field and the    *)
(* url in the results of downloadAdImages, a failed companion fetch is     *)
(* caught; the candidate stays succeeded and the run goes on.              *)
C10_AssetFailureContained ==
    LET rec == lastRecord
    IN
        (last.index > 0 /\ \E k \in 1..Len(last.attempts) : last.attempts[k].net # "ok")
        =>  /\ pc \in {"level2", "finish", "done"}
            /\ i = last.index
            /\ last.outcome = "succeeded"
            /\ results.summary.successfulDetails = countOutcome("succeeded")
            /\ failedCounter = countOutcome("failed")
            /\ \A k \in mainAttempts(last.attempts) :
                  last.attempts[k].net # "ok" =>
                     /\ results.downloadResults # <<>>
                     /\ LET e == results.downloadResults[Len(results.downloadResults)]
                        IN  /\ e.adId = rec.adId
                            /\ Len(e.results) = 1
                            /\ hasError(e.results[1])
                            /\ e.results[1].url = rec.imageUrl

(* the first candidate's main and companion fetches both failed, and the   *)
(* second candidate was processed after it                                 *)
C10_Witness ==
    /\ Len(trace) = 2 /\ trace[1].outcome = "succeeded"
    /\ Len(fetchLog) >= 2
    /\ fetchLog[1].kind = "main" /\ fetchLog[1].net # "ok"
    /\ fetchLog[2].kind = "companion" /\ fetchLog[2].net # "ok"
    /\ fetchLog[2].path.stem = companyId
    /\ last.index = 2 /\ last.outcome = "succeeded"

----------------------------------------------------------------------------
(* Properties of the asset outcomes and counters (checked under Spec) *)

RECURSIVE outcomeEntries(_)
outcomeEntries(drs) ==
    IF drs = <<>> THEN 0 ELSE Len(Head(drs).results) + outcomeEntries(Tail(drs))

okAttempts(log) == {k \in 1..Len(log) : log[k].net = "ok"}

(* C11, as claimed: every attempted asset fetch, main or companion,        *)
(* successful or failed, has exactly one outcome entry in downloadResults: *)
(* the number of outcome entries equals the number of fetch attempts.      *)
C11_OneEntryPerAttempt ==
    outcomeEntries(results.downloadResults) = Len(fetchLog)

(* C12, as claimed: at the end of a run successfulDownloads is the number  *)
(* of asset fetch attempts, main and companion, that succeeded and         *)
(* failedDownloads the number that failed.                                 *)
C12_AccurateAssetCounters ==
    pc = "done" =>
        /\ results.summary.successfulDownloads
              = Cardinality(okAttempts(fetchLog))
        /\ results.summary.failedDownloads
              = Len(fetchLog) - Cardinality(okAttempts(fetchLog))

----------------------------------------------------------------------------
(* Properties of the run as a whole (checked under Spec) *)

closeCount(session) ==
    Cardinality({k \in 1..Len(sessionLog) :
                    /\ sessionLog[k].op = "close"
                    /\ sessionLog[k].session = session})

sessionOps(op) == {k \in 1..Len(sessionLog) : sessionLog[k].op = op}

runEnded == pc \in {"done", "failed", "aborted", "exit"}

(* C13, as claimed: a session acquired in this run is closed exactly once  *)
(* by the end of the run and never twice; a session that was not acquired  *)
(* in this run (none at all, or the one a reused scraper still holds from  *)
(* an earlier run) is never closed.                                        *)
C13_SessionDiscipline ==
    /\ closeCount("earlier") = 0
    /\ closeCount("current") <= 1
    /\ sessionOps("acquire") = {} => closeCount("current") = 0
    /\ (runEnded /\ sessionOps("acquire") # {}) => closeCount("current") = 1

(* C15: a processAds run of level 1 performs no detail fetch and no asset  *)
(* fetch; a run of level 2 performs detail fetches and no asset fetch; at  *)
(* level 3 an iteration attempts asset fetches only when its candidate     *)
(* succeeded.  (The retry run always fetches details; its level gates the  *)
(* asset fetches in the same way.)                                         *)
C15_DepthGating ==
    /\ (mode = "scrape" /\ scrapingLevel = 1) =>
          /\ trace = <<>> /\ i = 0 /\ last = NoLast
          /\ results.processedAds = <<>>
    /\ scrapingLevel < 3 =>
          /\ fetchLog = <<>> /\ disk = {}
          /\ results.downloadResults = <<>>
          /\ last.index > 0 => last.attempts = <<>>
    /\ (last.index > 0 /\ last.attempts # <<>>) =>
          /\ scrapingLevel = 3
          /\ last.outcome = "succeeded"
    /\ Len(fetchLog) <= 2 * countOutcome("succeeded")

(* a level 2 run has fetched the details of two candidates, the second of  *)
(* which succeeded with an imageUrl and a logoUrl, and attempted no asset  *)
(* fetch                                                                   *)
C15_Witness ==
    /\ mode = "scrape" /\ scrapingLevel = 2 /\ pc = "done"
    /\ companyId # Null
    /\ Len(trace) = 2 /\ last.index = 2
    /\ last.outcome = "succeeded"
    /\ lastRecord.imageUrl # Null /\ lastRecord.logoUrl # Null
    /\ fetchLog = <<>>

(* C16, as claimed: every run that does not abort fatally, the run that    *)
(* finds no candidate included, returns a finalized result: the summary    *)
(* counters are there, endTime is set and the result has been saved        *)
(* exactly once.                                                           *)
C16_FinalizedResult ==
    pc = "done" =>
        /\ "totalAdsFound" \in DOMAIN results.summary
              \/ "totalAdsToRetry" \in DOMAIN results.summary
        /\ results.endTime
        /\ results.saved = 1

(* C17: without BROWSERLESS_API_KEY the run never gets past its start: no  *)
(* session request and no acquisition, no discovery, no detail fetch, no   *)
(* asset fetch, no result saved; it ends in the error state.               *)
C17_MissingCredentialFatal ==
    ~apiKey =>
        /\ pc \in {"start", "failed"}
        /\ sessionOps("request") = {} /\ sessionOps("acquire") = {}
        /\ browser # "current"
        /\ adUrls = <<>> /\ i = 0 /\ trace = <<>>
        /\ fetchLog = <<>> /\ disk = {}
        /\ results.saved = 0 /\ ~results.endTime

(* a processAds run without the credential has ended with the error *)
C17_Witness ==
    /\ ~apiKey /\ mode = "scrape" /\ pc = "failed"
    /\ scrapingLevel = 3

----------------------------------------------------------------------------
(* Properties of the command line (checked under SpecMain) *)

(* C14, as claimed: whenever the scraping level argument is given and is   *)
(* not "1", "2" or "3", the program exits from main: no session is         *)
(* requested or acquired, no detail fetch and no asset fetch takes place.  *)
C14_InvalidDepthRejected ==
    (argv # Null /\ argv \notin {<<"1">>, <<"2">>, <<"3">>}) =>
        /\ pc \in {"main", "exit"}
        /\ sessionLog = <<>> /\ browser = "none"
        /\ trace = <<>> /\ fetchLog = <<>>

----------------------------------------------------------------------------
(* Properties of the extractor (checked under SpecExtract) *)

firstMatching(rules, k) ==
    rules[k] # NoMatch /\ \A j \in 1..(k - 1) : rules[j] = NoMatch

firstNonEmpty(rules, k) ==
    /\ rules[k] \notin {NoMatch, <<>>}
    /\ \A j \in 1..(k - 1) : rules[j] \in {NoMatch, <<>>}

cleanedHeadline(m) == decodeQuotAmp(stripTags(trim(m)))

cleanedCompany(m) ==
    SubSeq(stripTags(trim(m)), 1, Min(CompanyMaxLen, Len(stripTags(trim(m)))))

decodedAmp(m) == replaceAll(m, Amp, <<"&">>)

(* the value v of a field comes from the first rule that matches *)
resolvedByFirstMatch(rules, v, clean(_)) ==
    /\ (\A k \in 1..Len(rules) : rules[k] = NoMatch) => v = Null
    /\ \A k \in 1..Len(rules) : firstMatching(rules, k) => v = clean(rules[k])

(* the value v of a field comes from the first rule whose capture is not   *)
(* empty                                                                   *)
resolvedByFirstNonEmpty(rules, v, clean(_)) ==
    /\ (\A k \in 1..Len(rules) : rules[k] \in {NoMatch, <<>>}) => v = Null
    /\ \A k \in 1..Len(rules) : firstNonEmpty(rules, k) => v = clean(rules[k])

(* C18, as claimed: company, headline, imageAlt, targetUrl and logoUrl     *)
(* take the value of the first rule, in rule order, whose match is         *)
(* non-empty, and are null when no rule yields a non-empty match.          *)
C18_FirstNonEmptyWins ==
    epc = "returned" =>
        /\ resolvedByFirstNonEmpty(markup.company, data.company, cleanedCompany)
        /\ resolvedByFirstNonEmpty(markup.headline, data.headline, cleanedHeadline)
        /\ resolvedByFirstNonEmpty(markup.imageAlt, data.imageAlt, decodeQuotAmp)
        /\ resolvedByFirstNonEmpty(markup.target, data.targetUrl, decodedAmp)
        /\ resolvedByFirstNonEmpty(markup.logo, data.logoUrl, decodedAmp)

(* C18, amended: company, headline, imageAlt, targetUrl and logoUrl take   *)
(* the cleaned capture of the first rule, in rule order, that matches,     *)
(* also when that capture is empty (a later rule is then not tried and     *)
(* the field is the empty string); a field is null exactly when none of    *)
(* its rules matches; the extraction returns a record for every page.      *)
C18_FirstMatchWins ==
    epc = "returned" =>
        /\ resolvedByFirstMatch(markup.company, data.company, cleanedCompany)
        /\ resolvedByFirstMatch(markup.headline, data.headline, cleanedHeadline)
        /\ resolvedByFirstMatch(markup.imageAlt, data.imageAlt, decodeQuotAmp)
        /\ resolvedByFirstMatch(markup.target, data.targetUrl, decodedAmp)
        /\ resolvedByFirstMatch(markup.logo, data.logoUrl, decodedAmp)
        /\ data.sourceUrl = DetailUrl
        /\ \A f \in {"company", "headline"} :
              data[f] = Null <=> \A k \in 1..Len(markup[f]) : markup[f][k] = NoMatch

(* Rule 1 of company does not match and Rule 2 does: company is Rule 2's   *)
(* value; Rule 1 of headline matches with an empty capture: headline is    *)
(* the empty string although Rule 2 captured a text                        *)
C18_Witness ==
    /\ epc = "returned"
    /\ markup.company = <<NoMatch, RawHi, RawAmp>>
    /\ data.company = <<"H","i">>
    /\ markup.headline = <<<<>>, RawApos>>
    /\ data.headline = <<>>

Escapes == {Quot, Amp, Apos, Num34}

isCleanText(v) ==
    \/ v = Null
    \/ /\ trim(v) = v
       /\ stripTags(v) = v
       /\ \A e \in Escapes : ~includes(v, e)

(* C19, as claimed: headline, company, description, imageAlt and the call  *)
(* to action are stored trimmed, without markup tags and with the four     *)
(* escapes &quot; &amp; &#x27; &#34; decoded: no stored text field         *)
(* contains one of them.                                                   *)
C19_UniformCleaning ==
    epc = "returned" =>
        \A f \in {"headline", "company", "description", "imageAlt", "cta"} :
            isCleanText(data[f])

----------------------------------------------------------------------------
(* Properties of the file naming (checked under SpecFileExt) *)

(* C20, as claimed: for every asset URL the extension of the local file    *)
(* name is the lower-cased extension of the URL path when that is one of   *)
(* .jpg .jpeg .png .gif .webp .svg, and .jpg in every other case.          *)
C20_WhitelistedExtension ==
    (fpc = "returned" /\ assetUrl.absolute) =>
        /\ ~fileExt.threw
        /\ fileExt.ext =
              IF toLowerCase(extname(pathname(assetUrl.rest))) \in ImageExtensions
              THEN toLowerCase(extname(pathname(assetUrl.rest)))
              ELSE DotJpg

----------------------------------------------------------------------------
(* Properties of the asset fetches of a run (checked under Spec) *)

withImage(ads) == {k \in 1..Len(ads) : ads[k].imageUrl # Null}

(* C21: at level 3 every succeeded record with a non-null imageUrl has     *)
(* triggered exactly one main fetch attempt, for its own imageUrl, and a   *)
(* succeeded record with a null imageUrl none; nothing is deduplicated, so *)
(* the run's main attempts are as many as its succeeded records with an    *)
(* imageUrl, also when two of them share the imageUrl.                     *)
C21_OneMainFetchPerRecord ==
    LET rec == lastRecord
    IN
        scrapingLevel >= 3 =>
            /\ Cardinality(mainAttempts(fetchLog))
                  = Cardinality(withImage(results.processedAds))
            /\ (lastFetched /\ last.outcome = "succeeded") =>
                  IF rec.imageUrl # Null
                  THEN /\ Cardinality(mainAttempts(last.attempts)) = 1
                       /\ \A k \in mainAttempts(last.attempts) :
                             last.attempts[k].url = rec.imageUrl
                  ELSE mainAttempts(last.attempts) = {}

(* two succeeded records share their imageUrl, and each of them had its    *)
(* own main fetch attempt                                                  *)
C21_Witness ==
    /\ scrapingLevel = 3 /\ mode = "scrape"
    /\ Len(results.processedAds) = 2
    /\ results.processedAds[1].imageUrl # Null
    /\ results.processedAds[1].imageUrl = results.processedAds[2].imageUrl
    /\ Cardinality(mainAttempts(fetchLog)) = 2
    /\ \A k \in mainAttempts(fetchLog) :
          fetchLog[k].url = results.processedAds[1].imageUrl
    /\ mainAttempts(last.attempts) # {}

----------------------------------------------------------------------------
(* Properties of the results a run saves (checked under Spec) *)

failedIndexes == {k \in 1..Len(trace) : trace[k].outcome = "failed"}

(* C22, as claimed: the result a processAds run saves lists, in failedAds, *)
(* every candidate the run counted in failedDetails, with its id and URL,  *)
(* so retryFailedAds given that result finds as many ads to retry as       *)
(* failedDetails says, and finds "no failed ads to retry" only when        *)
(* failedDetails is 0.                                                     *)
C22_FailedCandidatesRecorded ==
    (mode = "scrape" /\ pc = "done" /\ results.saved = 1) =>
        /\ noFailedAdsToRetry(results) <=> results.summary.failedDetails = 0
        /\ ~noFailedAdsToRetry(results) =>
              /\ Len(results.failedAds) = results.summary.failedDetails
              /\ \A k \in 1..Len(results.failedAds) :
                    \E j \in failedIndexes :
                       /\ results.failedAds[k].adId = adUrls[j].id
                       /\ results.failedAds[k].adUrl = adUrls[j].url
                       /\ Cardinality({f \in failedIndexes : f <= j}) = k

----------------------------------------------------------------------------
(* Properties of the order of a run's steps (checked under Spec) *)

delays == {k \in 1..Len(trace) : trace[k].delay}

(* C23: a delay follows each processed candidate except the last one of    *)
(* the list, whatever the candidate's outcome; so a finished detail run    *)
(* over n >= 1 candidates has had n - 1 delays, and a run that processed   *)
(* no candidate has had none.                                              *)
C23_InterItemPacing ==
    /\ \A k \in 1..Len(trace) : trace[k].delay <=> k < Len(adUrls)
    /\ Len(trace) = 0 => delays = {}
    /\ (pc \in {"finish", "done"} /\ Len(trace) >= 1) =>
          /\ Len(trace) = Len(adUrls)
          /\ Cardinality(delays) = Len(adUrls) - 1

(* a run over two candidates has ended; the first candidate failed and was *)
(* followed by the delay, the second was skipped and was not               *)
C23_Witness ==
    /\ pc = "done" /\ Len(adUrls) = 2 /\ Len(trace) = 2
    /\ trace[1].outcome = "failed" /\ trace[1].delay
    /\ trace[2].outcome = "skipped" /\ ~trace[2].delay
    /\ Cardinality(delays) = 1

(* everything the run has started and waited for so far, in order *)
opLog == flatten([k \in 1..Len(trace) |-> trace[k].events])

candidateUrl(k) == IF mode = "scrape" THEN adUrls[k].url ELSE adUrls[k].adUrl

detailStarts(log) ==
    {p \in 1..Len(log) : log[p].ev = "start" /\ log[p].op.kind = "detail"}

inFlight(log, p) ==
    Cardinality({q \in 1..p : log[q].ev = "start"})
        - Cardinality({q \in 1..p : log[q].ev = "end"})

(* C24: the detail fetches of a run are those of its candidates, in        *)
(* discovery order, one per candidate also when the fetch failed; at every *)
(* moment at most one detail or asset fetch is in flight, and whatever a   *)
(* candidate started has ended when the next candidate's fetch starts.     *)
C24_StrictlySequential ==
    LET log == opLog
    IN
        /\ \A p \in 1..Len(log) : inFlight(log, p) \in {0, 1}
        /\ \A p \in detailStarts(log) : inFlight(log, p - 1) = 0
        /\ Cardinality(detailStarts(log)) = Len(trace)
        /\ \A k \in 1..Len(trace) :
              /\ Cardinality(detailStarts(trace[k].events)) = 1
              /\ trace[k].events[1].ev = "start"
              /\ trace[k].events[1].op.kind = "detail"
              /\ trace[k].events[1].op.url = candidateUrl(k)
        /\ \A j, k \in 1..Len(trace) :
              j # k => candidateUrl(j) # candidateUrl(k)
        /\ (pc \in {"finish", "done"} /\ trace # <<>>) =>
              Cardinality(detailStarts(log)) = Len(adUrls)

(* the first candidate's detail, main and companion fetches have each      *)
(* ended before the next began, the second candidate's fetch failed and    *)
(* was not repeated, and the run is over                                   *)
C24_Witness ==
    /\ pc = "done" /\ Len(trace) = 2
    /\ Len(trace[1].events) = 6
    /\ trace[1].events[3].op.kind = "main"
    /\ trace[1].events[5].op.kind = "companion"
    /\ trace[2].threw /\ Len(trace[2].events) = 2
    /\ Len(opLog) = 8

----------------------------------------------------------------------------
(* Properties of the browser-based detail path (checked under             *)
(* SpecDetailPath)                                                         *)

(* C25, as claimed: after each candidate, whether its details were         *)
(* returned or an error was thrown, no page and no browser connection      *)
(* opened for it is still open: nothing is open when the next candidate    *)
(* starts.                                                                 *)
C25_ConnectionsClosed == connections = {}

----------------------------------------------------------------------------
(* Properties of the output directory (checked under Spec) *)

withCompany(ads) == {k \in 1..Len(ads) : Truthy(ads[k].company)}

(* C26, as claimed: the pipeline requests the relocation of the output     *)
(* exactly once in a run in which a record has succeeded and a company     *)
(* name was recovered, after the first successful record and before its    *)
(* asset fetches, and never more than once.                                *)
C26_RelocationOncePerRun ==
    mode = "scrape" =>
        /\ Len(outputDir.requests) <= 1
        /\ withCompany(results.processedAds) # {}
              <=> Len(outputDir.requests) = 1
        /\ \A k \in 1..Len(outputDir.requests) :
              /\ outputDir.requests[k].records = 0
              /\ outputDir.requests[k].fetches = 0

(* C26, amended: a processAds run requests the relocation at most once,    *)
(* and exactly when its FIRST succeeded record carries a non-empty company *)
(* name: the request is made with that name, before the record is          *)
(* appended and before any asset fetch of the run.  When the first         *)
(* succeeded record has no company name the run never requests it,         *)
(* whatever company names later records carry; a retry run never does.     *)
C26_RelocationForFirstRecord ==
    /\ Len(outputDir.requests) <= 1
    /\ mode = "retry" => outputDir.requests = <<>>
    /\ mode = "scrape" =>
          /\ Len(outputDir.requests) = 1
                <=> /\ results.processedAds # <<>>
                    /\ Truthy(results.processedAds[1].company)
          /\ outputDir.provisional <=> outputDir.requests = <<>>
          /\ \A k \in 1..Len(outputDir.requests) :
                /\ outputDir.requests[k].company
                      = results.processedAds[1].company
                /\ outputDir.name = results.processedAds[1].company
                /\ outputDir.requests[k].records = 0
                /\ outputDir.requests[k].fetches = 0

(* the first candidate failed; the second succeeded with a company name,   *)
(* the relocation was requested for it, and its assets were fetched after  *)
(* the request                                                             *)
C26_Witness ==
    /\ mode = "scrape" /\ pc = "done" /\ Len(trace) = 2
    /\ trace[1].outcome = "failed" /\ trace[2].outcome = "succeeded"
    /\ Len(outputDir.requests) = 1
    /\ outputDir.requests[1].company = results.processedAds[1].company
    /\ Len(fetchLog) > outputDir.requests[1].fetches

----------------------------------------------------------------------------
(* Properties of the ad format (checked under Spec) *)

lastLabels == Page(last.fetch.page).labels

priority(label) == CHOOSE k \in 1..Len(formatPatterns) : formatPatterns[k] = label

(* the format is the label of the markup that comes first in the           *)
(* vocabulary order, wherever it stands in the markup, and null when the   *)
(* markup has no label                                                     *)
byVocabularyPriority(format, labels) ==
    IF labels = <<>> THEN format = Null
    ELSE /\ occurs(format, labels)
         /\ \A p \in 1..Len(labels) : priority(format) <= priority(labels[p])

(* C27, as claimed: the format is resolved by vocabulary priority; markup  *)
(* with both "Single Image Ad" and "Video Ad" yields "Single Image Ad" and *)
(* is not skipped as a video, and markup with "Video Ad" and without       *)
(* "Single Image Ad" is always skipped.                                    *)
C27_VideoLabelAlwaysSkipped ==
    LET rec == lastRecord
    IN
        lastFetched =>
            /\ byVocabularyPriority(rec.adFormat, lastLabels)
            /\ (occurs(SingleImageAd, lastLabels) /\ occurs(VideoAd, lastLabels)) =>
                  /\ rec.adFormat = SingleImageAd
                  /\ last.outcome # "skipped"
            /\ (occurs(VideoAd, lastLabels) /\ ~occurs(SingleImageAd, lastLabels)) =>
                  last.outcome = "skipped"

(* C27, amended: the format is resolved by vocabulary priority, not by     *)
(* position.  Markup with both "Single Image Ad" and "Video Ad" yields     *)
(* "Single Image Ad", and its candidate, when it has a non-empty headline, *)
(* succeeds as a non-video record; markup with "Video Ad" and without      *)
(* "Single Image Ad" yields "Video Ad", and its candidate is skipped when  *)
(* it has a non-empty headline.  Without a non-empty headline the          *)
(* candidate is failed in both cases, not skipped.                         *)
C27_VocabularyPriority ==
    LET rec == lastRecord
    IN
        lastFetched =>
            /\ byVocabularyPriority(rec.adFormat, lastLabels)
            /\ (occurs(SingleImageAd, lastLabels) /\ occurs(VideoAd, lastLabels)) =>
                  /\ rec.adFormat = SingleImageAd
                  /\ last.outcome = IF Truthy(rec.headline) THEN "succeeded"
                                    ELSE "failed"
            /\ (occurs(VideoAd, lastLabels) /\ ~occurs(SingleImageAd, lastLabels)) =>
                  /\ rec.adFormat = VideoAd
                  /\ last.outcome = IF Truthy(rec.headline) THEN "skipped"
                                    ELSE "failed"

(* markup in which "Video Ad" stands before "Single Image Ad" was resolved *)
(* to "Single Image Ad" and its record succeeded                           *)
C27_Witness ==
    /\ lastFetched
    /\ Len(lastLabels) = 2
    /\ lastLabels[1] = VideoAd /\ lastLabels[2] = SingleImageAd
    /\ lastRecord.adFormat = SingleImageAd
    /\ last.outcome = "succeeded"
    /\ results.processedAds[Len(results.processedAds)].adFormat = SingleImageAd

----------------------------------------------------------------------------
(* Properties of the output record list (checked under Spec) *)

succeededIndexes == {k \in 1..Len(trace) : trace[k].outcome = "succeeded"}

(* C28: in every state the output record list has successfulDetails        *)
(* entries, one for each candidate that succeeded so far and for no other, *)
(* in the order of the candidates in the discovery sequence: its k-th      *)
(* record is the record of the k-th succeeded candidate.                   *)
C28_OrderPreservingSubsequence ==
    /\ Len(results.processedAds) = results.summary.successfulDetails
    /\ Len(results.processedAds) = Cardinality(succeededIndexes)
    /\ \A k \in 1..Len(results.processedAds) :
          \E j \in succeededIndexes :
             /\ Cardinality({s \in succeededIndexes : s <= j}) = k
             /\ results.processedAds[k].sourceUrl = candidateUrl(j)

(* two candidates have succeeded and their records stand in the order of   *)
(* the candidates                                                          *)
C28_Witness ==
    /\ mode = "scrape" /\ Len(trace) = 2
    /\ succeededIndexes = {1, 2}
    /\ Len(results.processedAds) = 2
    /\ results.processedAds[1].sourceUrl = adUrls[1].url
    /\ results.processedAds[2].sourceUrl = adUrls[2].url
    /\ adUrls[1].url # adUrls[2].url

(* a step that processes one candidate and ends with the given outcome *)
processedWith(outcomes) ==
    /\ Len(trace') = Len(trace) + 1
    /\ trace'[Len(trace')].outcome \in outcomes

(* C29: a step that processes a candidate which ends failed (fetch error   *)
(* or no headline) or skipped (video) leaves the output record list, the   *)
(* asset outcome list, successfulDownloads, failedDownloads and the set of *)
(* companies whose logo was fetched as they were, attempts no asset fetch  *)
(* and writes no file; in a processAds run it changes the summary in       *)
(* totalAdsProcessed and in failedDetails or videoAdsSkipped only.         *)
C29_NonSuccessFrame ==
    [][processedWith({"failed", "skipped"}) =>
          /\ results'.processedAds = results.processedAds
          /\ results'.downloadResults = results.downloadResults
          /\ results'.summary.successfulDownloads
                = results.summary.successfulDownloads
          /\ results'.summary.failedDownloads
                = results.summary.failedDownloads
          /\ results'.summary.successfulDetails
                = results.summary.successfulDetails
          /\ downloadedLogosByCompany' = downloadedLogosByCompany
          /\ fetchLog' = fetchLog /\ disk' = disk
          /\ outputDir' = outputDir
          /\ mode = "scrape" =>
                results'.summary =
                    [results.summary EXCEPT
                        !.totalAdsProcessed = @ + 1,
                        ![IF trace'[Len(trace')].outcome = "failed"
                          THEN "failedDetails" ELSE "videoAdsSkipped"] = @ + 1]
    ]_vars

(* after a candidate that succeeded, fetched its image and the logo, a     *)
(* second candidate has failed on its fetch: the lists, the counters and   *)
(* the set are those the first candidate left                              *)
C29_Witness ==
    /\ mode = "scrape" /\ Len(trace) = 2 /\ last.index = 2
    /\ trace[1].outcome = "succeeded"
    /\ trace[2].outcome = "failed" /\ trace[2].threw
    /\ Len(results.processedAds) = 1 /\ Len(results.downloadResults) = 1
    /\ Len(fetchLog) = 2 /\ last.attempts = <<>>
    /\ downloadedLogosByCompany # {}
    /\ results.summary.failedDetails = 1
    /\ results.summary.totalAdsProcessed = 2

----------------------------------------------------------------------------
(* Properties of a run without companyId (checked under Spec) *)

withLogo(ads) == {k \in 1..Len(ads) : ads[k].logoUrl # Null}

(* C30: in a run whose companyId is null no companion fetch is attempted,  *)
(* no logo file is written and no company is marked, however many          *)
(* succeeded records carry a logoUrl; the main fetches are those of a run  *)
(* with a companyId: at level 3 one for each succeeded record with an      *)
(* imageUrl.                                                               *)
C30_NoCompanionWithoutCompany ==
    companyId = Null =>
        /\ companionAttempts(fetchLog) = {}
        /\ downloadedLogosByCompany = {}
        /\ \A f \in disk : f.tag # "logo"
        /\ scrapingLevel >= 3 =>
              Cardinality(mainAttempts(fetchLog))
                  = Cardinality(withImage(results.processedAds))

(* a level 3 run without companyId has two succeeded records, both with a  *)
(* logoUrl and an imageUrl: two main fetches, no companion fetch           *)
C30_Witness ==
    /\ companyId = Null /\ scrapingLevel = 3 /\ pc = "done"
    /\ Len(results.processedAds) = 2
    /\ withLogo(results.processedAds) = {1, 2}
    /\ withImage(results.processedAds) = {1, 2}
    /\ Len(fetchLog) = 2
    /\ mainAttempts(fetchLog) = {1, 2}

====
